---- MODULE Spec2Model ----
(***************************************************************************)
(* A model of the agent loops of yagu3/parv: the single-tier Agent of      *)
(* core/agent.py (run by main.py), the single-tier Agent of myai.py, and   *)
(* the Coordinator with its WorkerAgents of agents.py, together with the   *)
(* tool dispatchers and the parts of the memory stores the loops call.     *)
(*                                                                         *)
(* A process runs one program (prog); every send() call is one turn.  A    *)
(* turn is split at the points where the loop blocks on its environment:   *)
(* the pause checkpoint, the backend call, the tool dispatch.              *)
(*                                                                         *)
(* Texts are modelled by the markers the parsers look for (see Resp).      *)
(* Memory.log_message / ConversationMemory.add_message only append to a    *)
(* session log that no loop reads; the log is not part of the state.       *)
(***************************************************************************)
EXTENDS Integers, Sequences, FiniteSets, TLC

(***************************************************************************)
(* Bounds of the model                                                     *)
(***************************************************************************)
\* number of send() calls explored per process
MaxTurns == 2
\* a further turn is only explored from a history of at most this length
MaxCarry == 2

(***************************************************************************)
(* Program constants                                                       *)
(***************************************************************************)
CoreRounds == 4
MyaiRounds == 8
CoordRounds == 12
WorkerRounds == 5
CoreKeep == 4
MyaiCompactAt == 8
MyaiKeep == 6
MyaiRetryKeep == 2
Capacity == 50
PriorityCap == 10
NamePriority == 9
DontFilePriority == 8
ToolFactPriority == 6

Progs == {"core", "myai", "coord"}

\* agents.py TOOL_GROUPS
TOOL_GROUPS ==
  [researcher |-> {"web_search", "read_file", "run_command", "python_exec"},
   coder |-> {"create_file", "read_file", "run_command", "python_exec",
              "find_files", "list_directory", "create_directory"},
   file_manager |-> {"create_file", "read_file", "delete_file", "move_file",
                     "find_files", "list_directory", "create_directory",
                     "download_file"},
   pc_control |-> {"take_screenshot", "mouse_click", "mouse_move",
                   "keyboard_type", "keyboard_hotkey", "open_application",
                   "get_active_window", "clipboard_get", "clipboard_set"}]

WorkerNames == DOMAIN TOOL_GROUPS

\* the names of tools.TOOL_SCHEMAS / tools.BUILTIN_SCHEMAS (21 built-in tools)
TOOL_NAMES ==
  {"create_file", "read_file", "delete_file", "move_file", "find_files",
   "list_directory", "create_directory", "run_command", "python_exec",
   "web_search", "open_application", "take_screenshot", "mouse_click",
   "mouse_move", "keyboard_type", "keyboard_hotkey", "clipboard_get",
   "clipboard_set", "download_file", "get_active_window", "wait"}

(***************************************************************************)
(* Inputs: what the model may write, and what the user may say             *)
(***************************************************************************)
None == "none"

\* bare words the model may put after a tool/action marker
ActionWords == {"python_exec", "delete_file", "bogus"}
\* further words offered to the single-tier loops: a near-miss of a registered
\* name, and (core only) a custom tool found under tools/custom
FuzzyWords == {"exec"}
CustomWords == {"random_joke"}
\* bare words the model may put after a delegation marker
DelegateWords == {"researcher", "file_manager", "nobody"}
\* user messages: the phrases Agent._learn_from_message / _auto_save_tool look for
UserMsgs == {"hello", "call you bob", "call you al", "create a tool"}

(***************************************************************************)
(* A model output, by the markers the parsers search for:                  *)
(*   final    terminal marker (ANSWER: / Final Answer:): absent, present   *)
(*            with nothing after it, or present with trailing text         *)
(*   delegate the bare word after a Delegate marker, or None               *)
(*   task     a Task marker is present                                     *)
(*   action   the bare word after a TOOL:/Action: marker, or None          *)
(*   code     the text holds NAME = / DESC = / def execute( tool code      *)
(*   plain    with no marker at all: the text is empty or not              *)
(***************************************************************************)
Resp(f, d, t, a, c, p) ==
  [final |-> f, delegate |-> d, task |-> t, action |-> a, code |-> c, plain |-> p]

NoResp == Resp(None, None, FALSE, None, FALSE, "empty")

HasMarker(r) == r.final # None \/ r.delegate # None \/ r.task \/ r.action # None \/ r.code

\* the text of r is the empty string
IsEmptyText(r) == ~HasMarker(r) /\ r.plain = "empty"

\* outputs offered to the single-tier loops
SingleTierResps ==
  {Resp(f, None, FALSE, a, FALSE, "text") :
     f \in {"empty", "text"}, a \in {None, "python_exec"}}
  \cup {Resp(None, None, FALSE, a, FALSE, "text") :
     a \in {"python_exec", "bogus"} \cup FuzzyWords \cup CustomWords}
  \cup {Resp(None, None, FALSE, None, FALSE, p) : p \in {"empty", "text"}}

CoreResps == SingleTierResps \cup {Resp("text", None, FALSE, None, TRUE, "text")}
MyaiResps == {r \in SingleTierResps : r.action \notin CustomWords}
WorkerResps ==
  {Resp("text", None, FALSE, a, FALSE, "text") : a \in {None, "python_exec"}}
  \cup {Resp("empty", None, FALSE, None, FALSE, "text")}
  \cup {Resp(None, None, FALSE, a, FALSE, "text") : a \in ActionWords}
  \cup {Resp(None, None, FALSE, None, FALSE, p) : p \in {"empty", "text"}}

\* outputs offered to the Coordinator
CoordResps ==
  {Resp(f, d, d # None, a, FALSE, "text") :
     f \in {"empty", "text"}, d \in {None, "researcher"}, a \in {None, "python_exec"}}
  \cup {Resp(None, d, TRUE, a, FALSE, "text") :
     d \in DelegateWords, a \in {None, "python_exec"}}
  \cup {Resp(None, "researcher", FALSE, a, FALSE, "text") : a \in {None, "python_exec"}}
  \cup {Resp(None, None, FALSE, a, FALSE, "text") : a \in ActionWords}
  \cup {Resp(None, None, FALSE, None, FALSE, p) : p \in {"empty", "text"}}

(***************************************************************************)
(* Messages and results                                                    *)
(***************************************************************************)
\* kinds: "sys" system prompt, "msg" the user's message, "task" a worker's
\* task, "rec" the assistant-side record of a tool round, "obs" an observation
\* (tool result or worker result), "ans" an assistant answer or raw response,
\* "rep" the corrective re-prompt, "sum" the summary of compacted messages
Msg(role, kind) == [role |-> role, kind |-> kind]

SysMsg == Msg("system", "sys")
UserMsg == Msg("user", "msg")

\* what send()/execute() hands back: kind "final" (answer text), "raw" (the
\* response as-is), "error" (an error string), "fixed" (a fixed fallback
\* string), "null" (Python None); empty: the string is "" (or there is none)
Res(kind, empty) == [kind |-> kind, empty |-> empty]
Pending == Res("pending", TRUE)

\* an observation: kind "tool" (a dispatched tool's result; ok = no failure
\* marker), "scope" (tool not available for the role; names = the tools
\* listed), "noworker" (no such worker; names = the roles listed), "worker"
\* (a worker's result string; ok = it is not the empty string)
Obs(kind, ok, names) == [kind |-> kind, ok |-> ok, names |-> names]
NoObs == Obs(None, TRUE, {})

(***************************************************************************)
(* Sequence helpers                                                        *)
(***************************************************************************)
\* Python s[-n:]
LastN(s, n) == IF Len(s) <= n THEN s ELSE SubSeq(s, Len(s) - n + 1, Len(s))

RECURSIVE DropLeadingAssistant(_)
\* while self.history and self.history[0]['role'] == 'assistant': pop(0)
DropLeadingAssistant(s) ==
  IF s # <<>> /\ Head(s).role = "assistant" THEN DropLeadingAssistant(Tail(s)) ELSE s

(***************************************************************************)
(* Memory (memory/__init__.py): the priority facts                         *)
(***************************************************************************)
\* a fact: {fact, priority, access_count} (the timestamps are not modelled)
Fact(text, p, n) == [fact |-> text, priority |-> p, access_count |-> n]

DontFileFact == "Don't create files unless user explicitly asks"

\* str.lower() on one character
LowerChar(c) ==
  CASE c = "A" -> "a" [] c = "B" -> "b" [] c = "C" -> "c" [] c = "D" -> "d"
    [] c = "E" -> "e" [] c = "F" -> "f" [] c = "G" -> "g" [] c = "H" -> "h"
    [] c = "I" -> "i" [] c = "J" -> "j" [] c = "K" -> "k" [] c = "L" -> "l"
    [] c = "M" -> "m" [] c = "N" -> "n" [] c = "O" -> "o" [] c = "P" -> "p"
    [] c = "Q" -> "q" [] c = "R" -> "r" [] c = "S" -> "s" [] c = "T" -> "t"
    [] c = "U" -> "u" [] c = "V" -> "v" [] c = "W" -> "w" [] c = "X" -> "x"
    [] c = "Y" -> "y" [] c = "Z" -> "z" [] OTHER -> c

RECURSIVE Lower(_)
\* str.lower(), character by character
Lower(t) ==
  IF t = "" THEN "" ELSE LowerChar(SubSeq(t, 1, 1)) \o Lower(SubSeq(t, 2, Len(t)))

\* key of the eviction sort: priority * access_count
EvictKey(f) == f.priority * f.access_count

RECURSIVE InsertDesc(_, _)
\* f placed after every element whose key is >= its own (stable, descending)
InsertDesc(sorted, f) ==
  IF sorted = <<>> THEN <<f>>
  ELSE IF EvictKey(Head(sorted)) >= EvictKey(f)
       THEN <<Head(sorted)>> \o InsertDesc(Tail(sorted), f)
       ELSE <<f>> \o sorted

\* a faulty variant: no sort before the cut
Unsorted(fs) == fs

RECURSIVE SortDesc(_)
\* list.sort(key=priority*access_count, reverse=True): stable
SortDesc(fs) ==
  IF fs = <<>> THEN <<>>
  ELSE InsertDesc(SortDesc(SubSeq(fs, 1, Len(fs) - 1)), fs[Len(fs)])

\* a faulty variant: the texts compared as they are
MatchIndexExact(fs, t) ==
  IF \E i \in 1..Len(fs) : fs[i].fact = t
  THEN CHOOSE i \in 1..Len(fs) : fs[i].fact = t /\ \A j \in 1..(i - 1) : fs[j].fact # t
  ELSE 0

\* index of the first fact whose text equals t ignoring case, or 0
MatchIndex(fs, t) ==
  IF \E i \in 1..Len(fs) : Lower(fs[i].fact) = Lower(t)
  THEN CHOOSE i \in 1..Len(fs) :
         /\ Lower(fs[i].fact) = Lower(t)
         /\ \A j \in 1..(i - 1) : Lower(fs[j].fact) # Lower(t)
  ELSE 0

Min(a, b) == IF a <= b THEN a ELSE b

\* Memory.learn
Learn(fs, t, p) ==
  LET i == MatchIndex(fs, t) IN
  IF i > 0
  THEN [fs EXCEPT ![i] = Fact(@.fact, Min(PriorityCap, @.priority + 1), @.access_count + 1)]
  ELSE LET added == Append(fs, Fact(t, p, 1)) IN
       IF Len(added) > Capacity THEN SubSeq(SortDesc(added), 1, Capacity) ELSE added

RECURSIVE Pow(_, _)
Pow(b, e) == IF e = 0 THEN 1 ELSE b * Pow(b, e - 1)

\* the scores priority * log2(access_count + 1) of f and g are equal
\* (p * log2(a) = q * log2(b) exactly when a^p = b^q)
SameScore(f, g) ==
  Pow(f.access_count + 1, f.priority) = Pow(g.access_count + 1, g.priority)

\* Memory.top_facts sorts (score, fact) tuples: on equal scores the tuple
\* comparison goes on to compare the two dicts, which raises TypeError
TopFactsRaises(fs) ==
  \E i, j \in 1..Len(fs) : i < j /\ fs[i] # fs[j] /\ SameScore(fs[i], fs[j])

\* Agent._learn_from_message: the facts a user message teaches
LearnFromMessage(fs, m) ==
  LET named == IF m = "call you bob" THEN Learn(fs, "User calls me BOB", NamePriority)
               ELSE IF m = "call you al" THEN Learn(fs, "User calls me AL", NamePriority)
               ELSE fs
  IN IF m = "dont make a file" THEN Learn(named, DontFileFact, DontFilePriority)
     ELSE named

\* Agent._rebuild_system reads memory.top_facts(5) and so raises when it does
RebuildSystemRaises(fs) == TopFactsRaises(fs)

\* Agent._auto_save_tool: saves tool code, and learns of it, only when the
\* user asked for a tool and the response holds tool code
AutoSaveTool(fs, r, m) ==
  IF m = "create a tool" /\ r.code
  THEN Learn(fs, "Created custom tool: T", ToolFactPriority)
  ELSE fs

(***************************************************************************)
(* Parsing                                                                 *)
(***************************************************************************)
\* "a in b" for the words of the model (Python substring test on lower case)
Within(a, b) == a = b \/ (a = "exec" /\ b = "python_exec")

\* the registry of the core Agent: get_all_schemas() = built-in + custom tools
CORE_TOOL_NAMES == TOOL_NAMES \cup {"random_joke", "corporate_jorgans"}

\* the name lookup of Agent._parse_tool: an exact registry key, else a
\* registry key the word is part of or that is part of the word, else None
ResolveTool(word, names) ==
  IF word = None THEN None
  ELSE IF word \in names THEN word
  ELSE IF \E tn \in names : Within(word, tn) \/ Within(tn, word)
       THEN CHOOSE tn \in names : Within(word, tn) \/ Within(tn, word)
       ELSE None

\* core Agent._parse_tool and myai Agent._parse_tool: the tool of a response
CoreParseTool(r) == ResolveTool(r.action, CORE_TOOL_NAMES)
MyaiParseTool(r) == ResolveTool(r.action, TOOL_NAMES)

\* core Agent._clean_response: the text after ANSWER:, else the text with the
\* protocol lines removed, else the text itself
CleanResponse(r) ==
  IF r.final # None THEN Res("final", r.final = "empty")
  ELSE Res("raw", IsEmptyText(r))

\* myai Agent._parse_answer: the text after the answer marker, or None
MyaiParseAnswer(r) ==
  IF r.final # None THEN Res("final", r.final = "empty") ELSE Res("null", TRUE)

\* Coordinator._parse: "final" before "delegate" before "action" before "text"
CoordParseType(r) ==
  IF r.final # None THEN "final"
  ELSE IF r.delegate # None /\ r.task THEN "delegate"
  ELSE IF r.action # None THEN "action"
  ELSE "text"

\* WorkerAgent.execute: the Final Answer search comes before _parse
WorkerParseType(r) ==
  IF r.final # None THEN "final"
  ELSE IF r.action # None THEN "action"
  ELSE "text"

\* a faulty variant: the scope check made against the whole registry
WorkerAllowedGlobal(role, action) == action \in TOOL_NAMES

\* WorkerAgent.execute: the tool of a parsed action may be dispatched
WorkerAllowed(role, action) == action \in TOOL_GROUPS[role]

\* Coordinator.send: the worker of a Delegate intent exists
WorkerExists(name) == name \in WorkerNames

\* a faulty variant: a list of roles that misses the last two
NoWorkerListedShort == {"researcher", "coder"}

\* Coordinator.send line 279: the role names the "No worker named" text lists
NoWorkerListed == {"researcher", "coder", "file_manager", "pc_control"}

\* a faulty variant: an off-by-one loop bound
InBudgetOffByOne(n, budget) == n <= budget

\* "for n in range(budget)": the loop body runs for n
InBudget(n, budget) == n < budget

(***************************************************************************)
(* Tool dispatch: tools.execute_tool, tools.execute, tools.execute_any     *)
(*   "ok"    a result text without failure marker                          *)
(*   "fail"  a result text with the failure marker (returned by the tool,  *)
(*           or made from an exception caught by "except Exception")       *)
(*   "exit"  the tool raised SystemExit/KeyboardInterrupt, which "except   *)
(*           Exception" does not catch: python_exec runs exec(code)        *)
(***************************************************************************)
\* tools/__init__.py execute
Execute(name) ==
  IF name \notin TOOL_NAMES THEN {"fail"}
  ELSE IF name = "python_exec" THEN {"ok", "fail", "exit"}
  ELSE {"ok", "fail"}

\* tools/__init__.py execute_any: built-in, else a custom file, else unknown
ExecuteAny(name) ==
  IF name \in TOOL_NAMES THEN Execute(name)
  ELSE IF name \in CORE_TOOL_NAMES THEN {"ok", "fail"}
  ELSE {"fail"}

\* tools.py execute_tool
ExecuteTool(name) ==
  IF name \notin TOOL_NAMES THEN {"fail"}
  ELSE IF name = "python_exec" THEN {"ok", "fail", "exit"}
  ELSE {"ok", "fail"}

(***************************************************************************)
(* History management                                                      *)
(***************************************************************************)
\* core Agent._trim_history (message texts, and so their truncation, are
\* not modelled)
TrimHistory(h) == DropLeadingAssistant(LastN(h, CoreKeep))

\* myai Agent._compact_history
CompactHistory(h) ==
  IF Len(h) > MyaiCompactAt THEN <<Msg("user", "sum")>> \o LastN(h, MyaiKeep) ELSE h

\* a faulty variant: a retry that forgets to trim
KeepHistory(h) == h

\* core Agent.send on a transient failure: the history becomes the user message
CoreRetryHistory(h) == <<UserMsg>>

\* myai Agent.send on a transient failure: the history keeps its last 2
MyaiRetryHistory(h) == LastN(h, MyaiRetryKeep)

\* log_error: the counter of the pattern of `key` goes up by one
LogError(p, key) == [p EXCEPT ![key] = @ + 1]

(***************************************************************************)
(* State                                                                   *)
(***************************************************************************)
VARIABLES
  prog,        \* the program this process runs: "core", "myai" or "coord"
  turn,        \* number of send() calls started
  pc,          \* position of the running send(), "idle" before the first
  round,       \* round_n / round_num of the loop of send()
  calls,       \* backend calls made by send() in the current round
  resp,        \* the latest model output received by send() (core: last_resp)
  umsg,        \* the user message of this turn
  history,     \* self.history of the agent of prog
  messages,    \* the local list `messages` of myai/Coordinator send()
  use_prefill, \* myai: use_prefill
  reprompts,   \* corrective re-prompts issued in this turn
  result,      \* what send() returned
  exc,         \* the step an exception escaped send() from, or None
  curTool,     \* the tool being dispatched
  lastObs,     \* the observation appended by the latest round, until the next call
  facts,       \* Memory.facts
  patterns,    \* the ErrorPattern counters, by class of key
  wrole,       \* the role of the running worker, or None
  wround,      \* the worker's loop counter
  wmsgs,       \* the worker's local list `messages`
  wresp,       \* the latest model output received by the worker
  execs,       \* WorkerAgent.execute calls run side by side, by call
  lists,       \* the `messages` list objects of those calls
  llm,         \* the backend of those calls: per task, the outputs it gives
  callMsgs,    \* the `messages` argument of an LLM.call
  fixed,       \* what _fix_roles returned for it, and then for what it returned
  ret,         \* the latest call of a Memory method: its arguments and outcome
  memCalls,    \* the calls of Memory.learn or Memory.log_error made
  user,        \* Memory.user: name and desktop
  errors,      \* Memory.errors: the log, and the patterns dict in insertion order
  sessions,    \* Memory.history["sessions"]: the summaries of the records
  disk,        \* the text of the file a memory document is saved to
  data,        \* the document _save was last called with
  savePc,      \* position of the running _save, "idle" outside of it
  saved,       \* the document of the last _save that returned
  crashed,     \* the process was stopped
  loaded,      \* what _load returned after that, in a list, empty before it
  custom,      \* the files of tools/custom, in the order glob gives them
  schemas,     \* what get_all_schemas returned, empty before it
  discovery,   \* "none" before get_all_schemas, then "returned" or "raised"
  ppc,         \* position of Agent.send with respect to its pause checkpoints
  pround,      \* round_n of that send
  kbhit,       \* ESC key presses waiting in the keyboard buffer
  pdone,       \* tool rounds whose observation that send has appended to the history
  registry,    \* TOOL_NAMES: the registered tool names, in the order of the list
  word,        \* the word _parse_tool captured after the tool keyword
  resolved,    \* the tool _parse_tool resolved it to, in a list, empty before the call
  otext,       \* the output of the model given to Coordinator._parse
  noisy,       \* that output with markup noise put in
  parsed,      \* what _parse returned for the output, in a list, empty before the call
  reparsed,    \* what _parse returned for the noisy output, likewise
  prior,       \* the history of the core Agent before _trim_history, contents included
  trimmed,     \* the history after _trim_history, and after a second _trim_history
  session,     \* Memory._session: the messages logged in this process
  pastSessions,\* Memory.history["sessions"]: the records of the sessions closed
  closes,      \* calls of save_session made
  documents,       \* the documents user, errors, history, facts of the store directory
  mem,         \* the Memory object: whether it is constructed, and its four fields
  did,         \* the Memory method called last, and whether it raised
  agentHistory,\* Agent.history of the core Agent, the contents included
  userMsg,     \* user_msg of the running send
  sendPc,      \* position of the running send: "idle", "top", "retry", "tool", "done"
  roundN,      \* round_n of the running send
  request,     \* the history part of the messages of the backend calls made
  sends,       \* calls of send started
  stems,       \* the file names, without ".py", of the files of tools/custom
  dispatched   \* the calls of execute_any made: the name, the outcome, the module run

loopVars == <<prog, turn, pc, round, calls, resp, umsg, history, messages, use_prefill,
              reprompts, result, exc, curTool, lastObs, facts, patterns,
              wrole, wround, wmsgs, wresp>>
poolVars == <<execs, lists, llm>>
fixVars == <<callMsgs, fixed>>
memVars == <<ret, memCalls>>
ledgerVars == <<user, errors, sessions>>
diskVars == <<disk, data, savePc, saved, crashed, loaded>>
schemaVars == <<custom, schemas, discovery>>
pauseVars == <<ppc, pround, kbhit, pdone>>
resolveVars == <<registry, word, resolved>>
noiseVars == <<otext, noisy, parsed, reparsed>>
trimVars == <<prior, trimmed>>
sessionVars == <<session, pastSessions, closes>>
loadVars == <<documents, mem, did>>
callVars == <<agentHistory, userMsg, sendPc, roundN, request, sends>>
dispatchVars == <<stems, dispatched>>
moreVars == <<diskVars, schemaVars, pauseVars, resolveVars, noiseVars, trimVars, sessionVars, loadVars, callVars, dispatchVars>>
libVars == <<poolVars, fixVars, memVars, ledgerVars, moreVars>>
agentVars == <<prog, turn, pc, round, calls, resp, umsg, history, messages, use_prefill,
               reprompts, result, exc, curTool, lastObs, wrole, wround, wmsgs, wresp>>
exceptPool == <<fixVars, memVars, ledgerVars, moreVars>>
exceptFix == <<poolVars, memVars, ledgerVars, moreVars>>
exceptMem == <<poolVars, fixVars, ledgerVars, moreVars>>
exceptStore == <<poolVars, fixVars, moreVars>>
exceptDisk == <<poolVars, fixVars, memVars, ledgerVars, schemaVars, pauseVars, resolveVars, noiseVars, trimVars, sessionVars, loadVars, callVars, dispatchVars>>
exceptSchema == <<poolVars, fixVars, memVars, ledgerVars, diskVars, pauseVars, resolveVars, noiseVars, trimVars, sessionVars, loadVars, callVars, dispatchVars>>
exceptPause == <<poolVars, fixVars, memVars, ledgerVars, diskVars, schemaVars, resolveVars, noiseVars, trimVars, sessionVars, loadVars, callVars, dispatchVars>>
exceptResolve == <<poolVars, fixVars, memVars, ledgerVars, diskVars, schemaVars, pauseVars, noiseVars, trimVars, sessionVars, loadVars, callVars, dispatchVars>>
exceptNoise == <<poolVars, fixVars, memVars, ledgerVars, diskVars, schemaVars, pauseVars, resolveVars, trimVars, sessionVars, loadVars, callVars, dispatchVars>>
exceptTrim == <<poolVars, fixVars, memVars, ledgerVars, diskVars, schemaVars, pauseVars, resolveVars, noiseVars, sessionVars, loadVars, callVars, dispatchVars>>
exceptSession == <<poolVars, fixVars, memVars, ledgerVars, diskVars, schemaVars, pauseVars, resolveVars, noiseVars, trimVars, loadVars, callVars, dispatchVars>>
exceptLoad == <<poolVars, fixVars, memVars, ledgerVars, diskVars, schemaVars, pauseVars, resolveVars, noiseVars, trimVars, sessionVars, callVars, dispatchVars>>
exceptCall == <<poolVars, fixVars, memVars, ledgerVars, diskVars, schemaVars, pauseVars, resolveVars, noiseVars, trimVars, sessionVars, loadVars, dispatchVars>>
exceptDispatch == <<poolVars, fixVars, memVars, ledgerVars, diskVars, schemaVars, pauseVars, resolveVars, noiseVars, trimVars, sessionVars, loadVars, callVars>>
vars == <<loopVars, libVars>>

turnVars == <<round, calls, resp, umsg, messages, use_prefill, reprompts, result,
              curTool, lastObs>>
workerVars == <<wrole, wround, wmsgs, wresp>>
storeVars == <<facts, patterns>>

\* the agent object after construction, before its first send()
LoopIdle ==
  /\ prog \in Progs
  /\ turn = 0
  /\ pc = "idle"
  /\ round = 0
  /\ calls = 0
  /\ resp = NoResp
  /\ umsg = "hello"
  /\ history = <<>>
  /\ messages = <<>>
  /\ use_prefill = FALSE
  /\ reprompts = 0
  /\ result = Pending
  /\ exc = None
  /\ curTool = None
  /\ lastObs = NoObs
  /\ wrole = None
  /\ wround = 0
  /\ wmsgs = <<>>
  /\ wresp = NoResp

\* a new memory store
StoreEmpty ==
  /\ facts = <<>>
  /\ patterns = [coordinator |-> 0, tool |-> 0]

LoopInit == LoopIdle /\ StoreEmpty

\* no side-by-side worker calls
PoolIdle ==
  /\ execs = <<>>
  /\ lists = <<>>
  /\ llm = <<>>

\* no LLM.call under study
FixIdle ==
  /\ callMsgs = <<>>
  /\ fixed = <<>>

\* a call of a Memory method: the method, its text and number arguments,
\* whether it raised, and the facts, the number or the string it returned
Ret(op, text, n, raised, fs, count, str) ==
  [op |-> op, text |-> text, n |-> n, raised |-> raised, facts |-> fs, count |-> count,
   str |-> str]
NoRet == Ret(None, "", 0, FALSE, <<>>, 0, "")

\* no Memory method under study
MemIdle ==
  /\ ret = NoRet
  /\ memCalls = 0

\* the files of a new memory store: no identity, no error, no session
LedgerIdle ==
  /\ user = [name |-> "", desktop |-> ""]
  /\ errors = [log |-> <<>>, patterns |-> <<>>]
  /\ sessions = <<>>

\* no file of the store written or read
DiskIdle ==
  /\ disk = ""
  /\ data = <<>>
  /\ savePc = "idle"
  /\ saved = <<>>
  /\ crashed = FALSE
  /\ loaded = <<>>

\* no tool discovery under study
SchemaIdle ==
  /\ custom = <<>>
  /\ schemas = <<>>
  /\ discovery = "none"

\* no send under study for its pause checkpoints
PauseIdle ==
  /\ ppc = "idle"
  /\ pround = 0
  /\ kbhit = 0
  /\ pdone = 0

\* no tool word under study
ResolveIdle ==
  /\ registry = <<>>
  /\ word = ""
  /\ resolved = <<>>

\* no model output under study for its parse
NoiseIdle ==
  /\ otext = ""
  /\ noisy = ""
  /\ parsed = <<>>
  /\ reparsed = <<>>

\* no history under study for its trimming
TrimIdle ==
  /\ prior = <<>>
  /\ trimmed = <<>>

\* no session under study
SessionIdle ==
  /\ session = <<>>
  /\ pastSessions = <<>>
  /\ closes = 0

\* no store directory under study for its loading
LoadIdle ==
  /\ documents = <<>>
  /\ mem = <<>>
  /\ did = <<>>

\* no core Agent under study with the contents of its messages
CallIdle ==
  /\ agentHistory = <<>>
  /\ userMsg = ""
  /\ sendPc = "idle"
  /\ roundN = 0
  /\ request = <<>>
  /\ sends = 0

\* no dispatch of a registered name under study
DispatchIdle ==
  /\ stems = <<>>
  /\ dispatched = <<>>

\* none of the further parts under study
MoreIdle == DiskIdle /\ SchemaIdle /\ PauseIdle /\ ResolveIdle /\ NoiseIdle /\ TrimIdle /\ SessionIdle /\ LoadIdle /\ CallIdle /\ DispatchIdle

\* all the parts but one at rest
IdleButDisk == PoolIdle /\ FixIdle /\ MemIdle /\ LedgerIdle /\ SchemaIdle /\ PauseIdle /\ ResolveIdle /\ NoiseIdle /\ TrimIdle /\ SessionIdle /\ LoadIdle /\ CallIdle /\ DispatchIdle
IdleButSchema == PoolIdle /\ FixIdle /\ MemIdle /\ LedgerIdle /\ DiskIdle /\ PauseIdle /\ ResolveIdle /\ NoiseIdle /\ TrimIdle /\ SessionIdle /\ LoadIdle /\ CallIdle /\ DispatchIdle
IdleButPause == PoolIdle /\ FixIdle /\ MemIdle /\ LedgerIdle /\ DiskIdle /\ SchemaIdle /\ ResolveIdle /\ NoiseIdle /\ TrimIdle /\ SessionIdle /\ LoadIdle /\ CallIdle /\ DispatchIdle
IdleButResolve == PoolIdle /\ FixIdle /\ MemIdle /\ LedgerIdle /\ DiskIdle /\ SchemaIdle /\ PauseIdle /\ NoiseIdle /\ TrimIdle /\ SessionIdle /\ LoadIdle /\ CallIdle /\ DispatchIdle
IdleButNoise == PoolIdle /\ FixIdle /\ MemIdle /\ LedgerIdle /\ DiskIdle /\ SchemaIdle /\ PauseIdle /\ ResolveIdle /\ TrimIdle /\ SessionIdle /\ LoadIdle /\ CallIdle /\ DispatchIdle
IdleButTrim == PoolIdle /\ FixIdle /\ MemIdle /\ LedgerIdle /\ DiskIdle /\ SchemaIdle /\ PauseIdle /\ ResolveIdle /\ NoiseIdle /\ SessionIdle /\ LoadIdle /\ CallIdle /\ DispatchIdle
IdleButSession == PoolIdle /\ FixIdle /\ MemIdle /\ LedgerIdle /\ DiskIdle /\ SchemaIdle /\ PauseIdle /\ ResolveIdle /\ NoiseIdle /\ TrimIdle /\ LoadIdle /\ CallIdle /\ DispatchIdle
IdleButLoad == PoolIdle /\ FixIdle /\ MemIdle /\ LedgerIdle /\ DiskIdle /\ SchemaIdle /\ PauseIdle /\ ResolveIdle /\ NoiseIdle /\ TrimIdle /\ SessionIdle /\ CallIdle /\ DispatchIdle
IdleButCall == PoolIdle /\ FixIdle /\ MemIdle /\ LedgerIdle /\ DiskIdle /\ SchemaIdle /\ PauseIdle /\ ResolveIdle /\ NoiseIdle /\ TrimIdle /\ SessionIdle /\ LoadIdle /\ DispatchIdle
IdleButDispatch == PoolIdle /\ FixIdle /\ MemIdle /\ LedgerIdle /\ DiskIdle /\ SchemaIdle /\ PauseIdle /\ ResolveIdle /\ NoiseIdle /\ TrimIdle /\ SessionIdle /\ LoadIdle /\ CallIdle
Init == LoopInit /\ PoolIdle /\ FixIdle /\ MemIdle /\ LedgerIdle /\ MoreIdle

\* a send() may start: none is running, and the exploration bounds allow it
CanSend(p) ==
  /\ prog = p
  /\ pc \in {"idle", "done"}
  /\ turn < MaxTurns
  /\ Len(history) <= MaxCarry

\* the per-turn bookkeeping at the start of a send()
BeginTurn(m) ==
  /\ turn' = turn + 1
  /\ umsg' = m
  /\ round' = 0
  /\ calls' = 0
  /\ resp' = NoResp
  /\ reprompts' = 0
  /\ result' = Pending
  /\ curTool' = None
  /\ lastObs' = NoObs

\* send() returns r
Return(r) == pc' = "done" /\ result' = r

\* an exception leaves send() (and, uncaught by main(), ends the process)
Raise(where) == pc' = "raised" /\ exc' = where

(***************************************************************************)
(* core/agent.py  Agent.send                                               *)
(***************************************************************************)
\* lines 228-233: learn from the message, rebuild the system prompt, append
\* the user message, trim
CoreSend(m) ==
  /\ CanSend("core")
  /\ BeginTurn(m)
  /\ facts' = LearnFromMessage(facts, m)
  /\ IF RebuildSystemRaises(facts')
     THEN Raise("rebuild") /\ UNCHANGED history
     ELSE /\ history' = TrimHistory(Append(history, UserMsg))
          /\ pc' = "top"
          /\ exc' = exc
  /\ UNCHANGED <<prog, libVars, messages, use_prefill, patterns, workerVars>>

\* lines 234-235 and 299-301: the loop head with its pause checkpoint, or the
\* fall-through when the rounds are used up
CoreTop ==
  /\ prog = "core" /\ pc = "top"
  /\ IF InBudget(round, CoreRounds)
     THEN /\ \E esc \in BOOLEAN : pc' = IF esc THEN "paused_top" ELSE "call"
          /\ UNCHANGED result
     ELSE IF ~IsEmptyText(resp)
          THEN Return(CleanResponse(resp))
          ELSE Return(Res("fixed", FALSE))
  /\ UNCHANGED <<prog, libVars, turn, round, calls, resp, umsg, history, messages, use_prefill,
                 reprompts, exc, curTool, lastObs, storeVars, workerVars>>

\* lines 238-252: the backend call of a round
CoreCall ==
  /\ prog = "core" /\ pc = "call"
  /\ calls' = calls + 1
  /\ \/ \E r \in CoreResps :
          /\ resp' = r /\ pc' = "parse"
          /\ UNCHANGED <<history, result>>
     \/ \* "400" or "500" in the error: trim to the user message and retry
        /\ history' = CoreRetryHistory(history)
        /\ pc' = "retry"
        /\ UNCHANGED <<resp, result>>
     \/ \* any other error: the turn ends, None is returned
        /\ Return(Res("null", TRUE))
        /\ UNCHANGED <<resp, history>>
  /\ UNCHANGED <<prog, libVars, turn, round, umsg, messages, use_prefill, reprompts, exc,
                 curTool, lastObs, storeVars, workerVars>>

\* lines 245-250: the one retry
CoreRetry ==
  /\ prog = "core" /\ pc = "retry"
  /\ calls' = calls + 1
  /\ \/ \E r \in CoreResps :
          /\ resp' = r /\ pc' = "parse"
          /\ UNCHANGED result
     \/ /\ Return(Res("error", FALSE))
        /\ UNCHANGED resp
  /\ UNCHANGED <<prog, libVars, turn, round, umsg, history, messages, use_prefill, reprompts,
                 exc, curTool, lastObs, storeVars, workerVars>>

\* lines 254-271 and 289-297: auto-save, then a tool call if one parses,
\* else the answer
CoreParse ==
  /\ prog = "core" /\ pc = "parse"
  /\ facts' = AutoSaveTool(facts, resp, umsg)
  /\ LET tool == CoreParseTool(resp)
         clean == CleanResponse(resp)
     IN IF tool # None
        THEN /\ curTool' = tool
             /\ \E esc \in BOOLEAN : pc' = IF esc THEN "paused_tool" ELSE "dispatch"
             /\ UNCHANGED <<round, calls, history, result>>
        ELSE IF ~clean.empty
        THEN /\ history' = Append(history, Msg("assistant", "ans"))
             /\ Return(clean)
             /\ UNCHANGED <<round, calls, curTool>>
        ELSE /\ round' = round + 1
             /\ calls' = 0
             /\ pc' = "top"
             /\ UNCHANGED <<history, result, curTool>>
  /\ UNCHANGED <<prog, libVars, turn, resp, umsg, messages, use_prefill, reprompts, exc,
                 lastObs, patterns, workerVars>>

\* lines 272-287: the dispatch through execute_fn = execute_any
CoreDispatch ==
  /\ prog = "core" /\ pc = "dispatch"
  /\ \E out \in ExecuteAny(curTool) :
       IF out = "exit"
       THEN /\ Raise("tool")
            /\ UNCHANGED <<round, calls, history, lastObs, patterns>>
       ELSE /\ patterns' = IF out = "fail" THEN LogError(patterns, "tool") ELSE patterns
            /\ history' = TrimHistory(history \o <<Msg("assistant", "rec"), Msg("user", "obs")>>)
            /\ round' = round + 1
            /\ calls' = 0
            /\ pc' = "top"
            /\ UNCHANGED <<exc, lastObs>>
  /\ UNCHANGED <<prog, libVars, turn, resp, umsg, messages, use_prefill, reprompts, result,
                 curTool, facts, workerVars>>

(***************************************************************************)
(* myai.py  Agent.send                                                     *)
(***************************************************************************)
\* the response of Agent._call: the forced prefix "THINK:" is re-attached, so
\* a prefilled response is never the empty string
WithPrefill(r, prefill) ==
  IF prefill /\ IsEmptyText(r) THEN [r EXCEPT !.plain = "text"] ELSE r

\* lines 361-367
MyaiSend(m) ==
  /\ CanSend("myai")
  /\ BeginTurn(m)
  /\ history' = CompactHistory(Append(history, UserMsg))
  /\ messages' = <<SysMsg>> \o history'
  /\ use_prefill' = TRUE
  /\ pc' = "top"
  /\ UNCHANGED <<prog, libVars, exc, storeVars, workerVars>>

\* lines 369-370 and 444: the loop head with its pause checkpoint, or None
\* when the rounds are used up
MyaiTop ==
  /\ prog = "myai" /\ pc = "top"
  /\ IF InBudget(round, MyaiRounds)
     THEN /\ \E esc \in BOOLEAN : pc' = IF esc THEN "paused_top" ELSE "call"
          /\ UNCHANGED result
     ELSE Return(Res("null", TRUE))
  /\ UNCHANGED <<prog, libVars, turn, round, calls, resp, umsg, history, messages, use_prefill,
                 reprompts, exc, curTool, lastObs, storeVars, workerVars>>

\* lines 371-386: the backend call of a round
MyaiCall ==
  /\ prog = "myai" /\ pc = "call"
  /\ calls' = calls + 1
  /\ \/ \E r \in MyaiResps :
          /\ resp' = WithPrefill(r, use_prefill) /\ pc' = "parse"
          /\ UNCHANGED <<history, messages, result>>
     \/ \* HTTPError 400 or 500: keep the last 2 messages and retry
        /\ history' = MyaiRetryHistory(history)
        /\ messages' = <<SysMsg>> \o history'
        /\ pc' = "retry"
        /\ UNCHANGED <<resp, result>>
     \/ \* any other error: the turn ends, None is returned
        /\ Return(Res("null", TRUE))
        /\ UNCHANGED <<resp, history, messages>>
  /\ UNCHANGED <<prog, libVars, turn, round, umsg, use_prefill, reprompts, exc, curTool,
                 lastObs, storeVars, workerVars>>

\* lines 379-382: the one retry, always prefilled
MyaiRetry ==
  /\ prog = "myai" /\ pc = "retry"
  /\ calls' = calls + 1
  /\ \/ \E r \in MyaiResps :
          /\ resp' = WithPrefill(r, TRUE) /\ pc' = "parse"
          /\ UNCHANGED result
     \/ /\ Return(Res("null", TRUE))
        /\ UNCHANGED resp
  /\ UNCHANGED <<prog, libVars, turn, round, umsg, history, messages, use_prefill, reprompts,
                 exc, curTool, lastObs, storeVars, workerVars>>

\* the corrective re-prompt is issued for the unparseable output of this round
RepromptRound(n) == n = 0

\* lines 388-442: a tool call if one parses, else the answer, else the one
\* re-prompt, else the raw text
MyaiParse ==
  /\ prog = "myai" /\ pc = "parse"
  /\ LET tool == MyaiParseTool(resp)
         answer == MyaiParseAnswer(resp)
     IN IF tool # None
        THEN /\ curTool' = tool
             /\ use_prefill' = FALSE
             /\ \E esc \in BOOLEAN : pc' = IF esc THEN "paused_tool" ELSE "dispatch"
             /\ UNCHANGED <<round, calls, history, messages, reprompts, result>>
        ELSE IF ~answer.empty
        THEN /\ history' = Append(history, Msg("assistant", "ans"))
             /\ use_prefill' = FALSE
             /\ Return(answer)
             /\ UNCHANGED <<round, calls, messages, reprompts, curTool>>
        ELSE IF RepromptRound(round)
        THEN /\ messages' = messages \o <<Msg("assistant", "ans"), Msg("user", "rep")>>
             /\ use_prefill' = TRUE
             /\ reprompts' = reprompts + 1
             /\ round' = round + 1
             /\ calls' = 0
             /\ pc' = "top"
             /\ UNCHANGED <<history, result, curTool>>
        ELSE /\ history' = Append(history, Msg("assistant", "ans"))
             /\ use_prefill' = FALSE
             /\ Return(Res("raw", IsEmptyText(resp)))
             /\ UNCHANGED <<round, calls, messages, reprompts, curTool>>
  /\ UNCHANGED <<prog, libVars, turn, resp, umsg, exc, lastObs, storeVars, workerVars>>

\* lines 409-422: the dispatch through execute_tool
MyaiDispatch ==
  /\ prog = "myai" /\ pc = "dispatch"
  /\ \E out \in ExecuteTool(curTool) :
       IF out = "exit"
       THEN /\ Raise("tool")
            /\ UNCHANGED <<round, calls, history, messages, patterns>>
       ELSE /\ patterns' = IF out = "fail" THEN LogError(patterns, "tool") ELSE patterns
            /\ messages' = messages \o <<Msg("assistant", "ans"), Msg("user", "obs")>>
            /\ history' = history \o <<Msg("assistant", "ans"), Msg("user", "obs")>>
            /\ round' = round + 1
            /\ calls' = 0
            /\ pc' = "top"
            /\ exc' = exc
  /\ UNCHANGED <<prog, libVars, turn, resp, umsg, use_prefill, reprompts, result, curTool,
                 lastObs, facts, workerVars>>

(***************************************************************************)
(* agents.py  Coordinator.send and WorkerAgent.execute                     *)
(***************************************************************************)
\* lines 244-248
CoordSend(m) ==
  /\ CanSend("coord")
  /\ BeginTurn(m)
  /\ history' = Append(history, UserMsg)
  /\ messages' = <<SysMsg>> \o history'
  /\ pc' = "top"
  /\ UNCHANGED <<prog, libVars, use_prefill, exc, storeVars, workerVars>>

\* lines 250 and 318: the loop head, or the fixed string when the rounds are
\* used up
CoordTop ==
  /\ prog = "coord" /\ pc = "top"
  /\ IF InBudget(round, CoordRounds)
     THEN pc' = "call" /\ UNCHANGED result
     ELSE Return(Res("fixed", FALSE))
  /\ UNCHANGED <<prog, libVars, turn, round, calls, resp, umsg, history, messages, use_prefill,
                 reprompts, exc, curTool, lastObs, storeVars, workerVars>>

\* lines 251-256: the backend call; any failure is logged and ends the turn
CoordCall ==
  /\ prog = "coord" /\ pc = "call"
  /\ calls' = calls + 1
  /\ lastObs' = NoObs
  /\ \/ \E r \in CoordResps :
          /\ resp' = r /\ pc' = "parse"
          /\ UNCHANGED <<result, patterns>>
     \/ /\ patterns' = LogError(patterns, "coordinator")
        /\ Return(Res("error", FALSE))
        /\ UNCHANGED resp
  /\ UNCHANGED <<prog, libVars, turn, round, umsg, history, messages, use_prefill, reprompts,
                 exc, curTool, facts, workerVars>>

\* lines 281-284 (and 306-309): the round's response and observation are
\* appended to the live context and to the history, and the loop goes on
CoordAppendRound(obs) ==
  /\ messages' = messages \o <<Msg("assistant", "ans"), Msg("user", "obs")>>
  /\ history' = history \o <<Msg("assistant", "ans"), Msg("user", "obs")>>
  /\ lastObs' = obs
  /\ round' = round + 1
  /\ calls' = 0
  /\ pc' = "top"

\* the worker's execute() returns res to line 277
WorkerReturn(res) ==
  /\ CoordAppendRound(Obs("worker", ~res.empty, {}))
  /\ wrole' = None
  /\ wround' = 0
  /\ wmsgs' = <<>>

\* lines 258-316: final answer, delegation, direct tool call, or plain text
CoordParse ==
  /\ prog = "coord" /\ pc = "parse"
  /\ LET ptype == CoordParseType(resp) IN
     CASE ptype = "final" ->
            /\ history' = Append(history, Msg("assistant", "ans"))
            /\ Return(Res("final", resp.final = "empty"))
            /\ UNCHANGED <<round, calls, messages, curTool, lastObs, workerVars>>
       [] ptype = "delegate" ->
            IF WorkerExists(resp.delegate)
            THEN \* worker.execute(task): lines 97-100
                 /\ wrole' = resp.delegate
                 /\ wmsgs' = <<SysMsg, Msg("user", "task")>>
                 /\ wround' = 0
                 /\ wresp' = NoResp
                 /\ pc' = "w_top"
                 /\ UNCHANGED <<round, calls, history, messages, result, curTool, lastObs>>
            ELSE /\ CoordAppendRound(Obs("noworker", FALSE, NoWorkerListed))
                 /\ UNCHANGED <<result, curTool, workerVars>>
       [] ptype = "action" ->
            /\ curTool' = resp.action
            /\ pc' = "dispatch"
            /\ UNCHANGED <<round, calls, history, messages, result, lastObs, workerVars>>
       [] OTHER ->
            /\ history' = Append(history, Msg("assistant", "ans"))
            /\ Return(Res("raw", IsEmptyText(resp)))
            /\ UNCHANGED <<round, calls, messages, curTool, lastObs, workerVars>>
  /\ UNCHANGED <<prog, libVars, turn, resp, umsg, use_prefill, reprompts, exc, storeVars>>

\* lines 299-309: the Coordinator's direct dispatch through execute_tool
CoordDispatch ==
  /\ prog = "coord" /\ pc = "dispatch"
  /\ \E out \in ExecuteTool(curTool) :
       IF out = "exit"
       THEN /\ Raise("tool")
            /\ UNCHANGED <<round, calls, history, messages, lastObs, patterns>>
       ELSE /\ patterns' = IF out = "fail" THEN LogError(patterns, "tool") ELSE patterns
            /\ CoordAppendRound(Obs("tool", out = "ok", {}))
            /\ exc' = exc
  /\ UNCHANGED <<prog, libVars, turn, resp, umsg, use_prefill, reprompts, result, curTool,
                 facts, workerVars>>

\* line 101 and 132: the worker's loop head, or its fixed string when its
\* rounds are used up
WorkerTop ==
  /\ pc = "w_top"
  /\ IF InBudget(wround, WorkerRounds)
     THEN /\ pc' = "w_call"
          /\ UNCHANGED <<round, calls, history, messages, lastObs, workerVars>>
     ELSE /\ WorkerReturn(Res("fixed", FALSE))
          /\ UNCHANGED wresp
  /\ UNCHANGED <<prog, libVars, turn, resp, umsg, use_prefill, reprompts, result, exc, curTool,
                 storeVars>>

\* lines 102-105: the worker's backend call; a failure becomes its result
WorkerCall ==
  /\ pc = "w_call"
  /\ \/ \E r \in WorkerResps :
          /\ wresp' = r /\ pc' = "w_parse" /\ lastObs' = NoObs
          /\ UNCHANGED <<round, calls, history, messages, wrole, wround, wmsgs>>
     \/ /\ WorkerReturn(Res("error", FALSE))
        /\ UNCHANGED wresp
  /\ UNCHANGED <<prog, libVars, turn, resp, umsg, use_prefill, reprompts, result, exc, curTool,
                 storeVars>>

\* lines 107-131: final answer, else an action (dispatched only when the
\* role allows the tool), else the response itself
WorkerParse ==
  /\ pc = "w_parse"
  /\ LET ptype == WorkerParseType(wresp) IN
     CASE ptype = "final" ->
            /\ WorkerReturn(Res("final", wresp.final = "empty"))
            /\ UNCHANGED <<curTool, wresp>>
       [] ptype = "action" ->
            IF WorkerAllowed(wrole, wresp.action)
            THEN /\ curTool' = wresp.action
                 /\ pc' = "w_dispatch"
                 /\ UNCHANGED <<round, calls, history, messages, lastObs, workerVars>>
            ELSE /\ wmsgs' = wmsgs \o <<Msg("assistant", "ans"), Msg("user", "obs")>>
                 /\ lastObs' = Obs("scope", FALSE, TOOL_GROUPS[wrole])
                 /\ wround' = wround + 1
                 /\ pc' = "w_top"
                 /\ UNCHANGED <<round, calls, history, messages, curTool, wrole, wresp>>
       [] OTHER ->
            /\ WorkerReturn(Res("raw", IsEmptyText(wresp)))
            /\ UNCHANGED <<curTool, wresp>>
  /\ UNCHANGED <<prog, libVars, turn, resp, umsg, use_prefill, reprompts, result, exc, storeVars>>

\* lines 126-129: the worker's dispatch through execute_tool
WorkerDispatch ==
  /\ pc = "w_dispatch"
  /\ \E out \in ExecuteTool(curTool) :
       IF out = "exit"
       THEN /\ Raise("tool")
            /\ UNCHANGED <<lastObs, wround, wmsgs>>
       ELSE /\ wmsgs' = wmsgs \o <<Msg("assistant", "ans"), Msg("user", "obs")>>
            /\ lastObs' = Obs("tool", out = "ok", {})
            /\ wround' = wround + 1
            /\ pc' = "w_top"
            /\ exc' = exc
  /\ UNCHANGED <<prog, libVars, turn, round, calls, resp, umsg, history, messages, use_prefill,
                 reprompts, result, curTool, storeVars, wrole, wresp>>

\* _check_pause / check_pause: a pause ends when ESC is pressed again
Resume ==
  /\ pc \in {"paused_top", "paused_tool"}
  /\ pc' = IF pc = "paused_top" THEN "call" ELSE "dispatch"
  /\ UNCHANGED <<prog, libVars, turn, round, calls, resp, umsg, history, messages, use_prefill,
                 reprompts, result, exc, curTool, lastObs, storeVars, workerVars>>

Next ==
  \/ \E m \in UserMsgs : CoreSend(m)
  \/ CoreTop
  \/ CoreCall
  \/ CoreRetry
  \/ CoreParse
  \/ CoreDispatch
  \/ MyaiSend("hello")
  \/ MyaiTop
  \/ MyaiCall
  \/ MyaiRetry
  \/ MyaiParse
  \/ MyaiDispatch
  \/ CoordSend("hello")
  \/ CoordTop
  \/ CoordCall
  \/ CoordParse
  \/ CoordDispatch
  \/ WorkerTop
  \/ WorkerCall
  \/ WorkerParse
  \/ WorkerDispatch
  \/ Resume

Spec == Init /\ [][Next]_vars

(***************************************************************************)
(* WorkerAgent.execute calls run side by side                              *)
(*                                                                         *)
(* Coordinator.send runs one worker.execute at a time.  Here two calls of  *)
(* execute (of the same WorkerAgent or of two) take their steps in any     *)
(* order, as they would if two delegations were run on two threads.  The   *)
(* backend is a function of the message list it is sent: for the task in   *)
(* the list it gives its k-th output when the list holds k-1 responses.    *)
(***************************************************************************)
\* execute() calls explored per behaviour
MaxRuns == 3

ExecIds == {1, 2}
Tasks == {"t1", "t2"}
PoolRoles == {"researcher", "file_manager"}

\* what the backend does on a call: an output, or a failure (an exception)
Reply(r) == [fails |-> FALSE, out |-> r]
Failure == [fails |-> TRUE, out |-> NoResp]

\* per task, the outputs of the backend, the last one repeated
Scripts ==
  {<<Reply(Resp("text", None, FALSE, None, FALSE, "text"))>>,
   <<Reply(Resp(None, None, FALSE, "delete_file", FALSE, "text")),
     Reply(Resp(None, None, FALSE, None, FALSE, "text"))>>,
   <<Reply(Resp(None, None, FALSE, "python_exec", FALSE, "text")), Failure>>,
   <<Reply(Resp(None, None, FALSE, "python_exec", FALSE, "text"))>>}

\* a result of execute(): its kind, and the output (task, index) it is made of
PoolRes(kind, of) == [kind |-> kind, of |-> of]

\* a call of execute(): self.role, task, position, loop counter, the latest
\* response with the output it is, the result, and the calls made before
Exec(role, task, at, n, reply, of, res, run) ==
  [role |-> role, task |-> task, pc |-> at, round |-> n, reply |-> reply, of |-> of,
   result |-> res, run |-> run]
IdleExec == Exec(None, None, "idle", 0, Failure, <<>>, PoolRes(None, <<>>), 0)

\* the number of assistant messages of a list
Responses(l) == Cardinality({i \in 1..Len(l) : l[i].role = "assistant"})

\* _call_llm(messages): which output the backend gives for this list
BackendIndex(l) ==
  LET s == llm[l[2].kind] IN <<l[2].kind, Min(Responses(l) + 1, Len(s))>>
Backend(l) == LET i == BackendIndex(l) IN llm[i[1]][i[2]]

\* a faulty variant: one list object shared by all calls
ListShared(e) == 1

\* line 97: `messages` is a local of the call, a new list object per call
ListOf(e) == e

\* the two messages a round appends to the list (lines 128-129)
RoundMsgs(of) == <<Msg("assistant", of), Msg("user", "obs")>>

RECURSIVE AloneFrom(_, _, _)
\* the results execute() can return, run by itself, from round n on list l
AloneFrom(role, l, n) ==
  IF ~InBudget(n, WorkerRounds) THEN {PoolRes("fixed", <<>>)}
  ELSE LET b == Backend(l)
           of == BackendIndex(l)
       IN IF b.fails THEN {PoolRes("error", of)}
          ELSE CASE WorkerParseType(b.out) = "final" -> {PoolRes("final", of)}
                 [] WorkerParseType(b.out) = "action" ->
                      (IF WorkerAllowed(role, b.out.action)
                          /\ "exit" \in ExecuteTool(b.out.action)
                       THEN {PoolRes("raised", of)} ELSE {})
                      \cup AloneFrom(role, l \o RoundMsgs(of), n + 1)
                 [] OTHER -> {PoolRes("raw", of)}

\* execute(task) run by itself: lines 97-132
Alone(role, task) == AloneFrom(role, <<SysMsg, Msg("user", task)>>, 0)

PoolInit ==
  /\ LoopInit
  /\ prog = "coord"
  /\ execs = [e \in ExecIds |-> IdleExec]
  /\ lists = [e \in ExecIds |-> <<>>]
  /\ llm \in [Tasks -> Scripts]
  /\ FixIdle
  /\ MemIdle
  /\ LedgerIdle
  /\ MoreIdle

PoolRuns == execs[1].run + execs[2].run

\* lines 275-277 and 97-100: a delegation calls execute(task) of a worker
PoolDelegate(e, role, task) ==
  /\ execs[e].pc = "idle"
  /\ PoolRuns < MaxRuns
  /\ execs' = [execs EXCEPT ![e] =
       Exec(role, task, "top", 0, Failure, <<>>, PoolRes(None, <<>>), @.run + 1)]
  /\ lists' = [lists EXCEPT ![ListOf(e)] = <<SysMsg, Msg("user", task)>>]
  /\ UNCHANGED <<loopVars, llm, exceptPool>>

\* execute() returns res
PoolReturn(e, res) ==
  /\ execs' = [execs EXCEPT ![e].pc = "done", ![e].result = res]
  /\ UNCHANGED lists

\* line 101 and 132
PoolTop(e) ==
  /\ execs[e].pc = "top"
  /\ IF InBudget(execs[e].round, WorkerRounds)
     THEN execs' = [execs EXCEPT ![e].pc = "call"] /\ UNCHANGED lists
     ELSE PoolReturn(e, PoolRes("fixed", <<>>))
  /\ UNCHANGED <<loopVars, llm, exceptPool>>

\* lines 102-105
PoolCall(e) ==
  /\ execs[e].pc = "call"
  /\ LET l == lists[ListOf(e)]
         b == Backend(l)
     IN IF b.fails
        THEN PoolReturn(e, PoolRes("error", BackendIndex(l)))
        ELSE /\ execs' = [execs EXCEPT ![e].pc = "parse", ![e].reply = b,
                                       ![e].of = BackendIndex(l)]
             /\ UNCHANGED lists
  /\ UNCHANGED <<loopVars, llm, exceptPool>>

\* lines 107-131
PoolParse(e) ==
  /\ execs[e].pc = "parse"
  /\ LET x == execs[e]
         ptype == WorkerParseType(x.reply.out)
     IN CASE ptype = "final" -> PoolReturn(e, PoolRes("final", x.of))
          [] ptype = "action" ->
               IF WorkerAllowed(x.role, x.reply.out.action)
               THEN execs' = [execs EXCEPT ![e].pc = "dispatch"] /\ UNCHANGED lists
               ELSE /\ lists' = [lists EXCEPT ![ListOf(e)] = @ \o RoundMsgs(x.of)]
                    /\ execs' = [execs EXCEPT ![e].pc = "top", ![e].round = @ + 1]
          [] OTHER -> PoolReturn(e, PoolRes("raw", x.of))
  /\ UNCHANGED <<loopVars, llm, exceptPool>>

\* lines 126-129
PoolDispatch(e) ==
  /\ execs[e].pc = "dispatch"
  /\ \E out \in ExecuteTool(execs[e].reply.out.action) :
       IF out = "exit"
       THEN /\ execs' = [execs EXCEPT ![e].pc = "raised",
                                      ![e].result = PoolRes("raised", execs[e].of)]
            /\ UNCHANGED lists
       ELSE /\ lists' = [lists EXCEPT ![ListOf(e)] = @ \o RoundMsgs(execs[e].of)]
            /\ execs' = [execs EXCEPT ![e].pc = "top", ![e].round = @ + 1]
  /\ UNCHANGED <<loopVars, llm, exceptPool>>

\* lines 281-284: the Coordinator takes the result string into its history
PoolCollect(e) ==
  /\ execs[e].pc = "done"
  /\ history' = history \o <<Msg("assistant", "ans"), Msg("user", "obs")>>
  /\ execs' = [execs EXCEPT ![e].pc = "idle"]
  /\ UNCHANGED <<prog, turn, pc, round, calls, resp, umsg, messages, use_prefill,
                 reprompts, result, exc, curTool, lastObs, storeVars, workerVars,
                 lists, llm, exceptPool>>

PoolNext ==
  \/ \E e \in ExecIds, role \in PoolRoles, task \in Tasks : PoolDelegate(e, role, task)
  \/ \E e \in ExecIds : PoolTop(e)
  \/ \E e \in ExecIds : PoolCall(e)
  \/ \E e \in ExecIds : PoolParse(e)
  \/ \E e \in ExecIds : PoolDispatch(e)
  \/ \E e \in ExecIds : PoolCollect(e)

PoolSpec == PoolInit /\ [][PoolNext]_vars

(***************************************************************************)
(* core/llm.py  LLM._fix_roles                                             *)
(*                                                                         *)
(* A content is the sequence of the texts it is joined of ("\n" between    *)
(* them); the i-th message of an input holds the one text i.               *)
(***************************************************************************)
\* longest message sequence given to _fix_roles
MaxLen == 4
\* applications of _fix_roles to its own result
MaxFix == 2

Roles == {"system", "user", "assistant"}

Message(role, content) == [role |-> role, content |-> content]

\* the message sequences up to n messages, the i-th one with the text i
RECURSIVE MessageSeqs(_)
MessageSeqs(n) ==
  IF n = 0 THEN {<<>>}
  ELSE LET shorter == MessageSeqs(n - 1) IN
       shorter \cup {Append(s, Message(r, <<n>>)) : s \in {t \in shorter : Len(t) = n - 1},
                                                    r \in Roles}

\* the placeholder turns
ContinuingAsAssistant == Message("assistant", <<"(continuing)">>)
ContinuingMsg == Message("user", <<"(continuing)">>)
ContinueMsg == Message("user", <<"Continue.">>)
HelloMsg == Message("user", <<"Hello.">>)

RECURSIVE MergeRoles(_, _)
\* lines 12-23: system messages are kept where they are, a message of the
\* role of the last kept message is joined to it, any other is copied
MergeRoles(acc, rest) ==
  IF rest = <<>> THEN acc
  ELSE LET m == Head(rest)
           next == IF m.role = "system" THEN Append(acc, m)
                   ELSE IF acc # <<>> /\ acc[Len(acc)].role = m.role
                        THEN [acc EXCEPT ![Len(acc)].content = @ \o m.content]
                        ELSE Append(acc, Message(m.role, m.content))
       IN MergeRoles(next, Tail(rest))

\* line 26: the index of the first message that is not a system message, or 0
FirstNonSys(s) ==
  IF \E i \in 1..Len(s) : s[i].role # "system"
  THEN CHOOSE i \in 1..Len(s) :
         s[i].role # "system" /\ \A j \in 1..(i - 1) : s[j].role = "system"
  ELSE 0

\* list.insert(i, m)
InsertAt(s, i, m) == SubSeq(s, 1, i - 1) \o <<m>> \o SubSeq(s, i, Len(s))

\* a faulty variant: a closing user turn after any last message
EndsOnAny(s) == s # <<>>

\* line 33: the sequence ends on an assistant message
EndsOnAssistant(s) == s # <<>> /\ s[Len(s)].role = "assistant"

\* LLM._fix_roles
FixRoles(s) ==
  LET merged == MergeRoles(<<>>, s)
      i == FirstNonSys(merged)
      begun == IF i > 0 /\ merged[i].role = "assistant"
               THEN InsertAt(merged, i, ContinuingMsg) ELSE merged
      ended == IF EndsOnAssistant(begun) THEN Append(begun, ContinueMsg) ELSE begun
  IN IF FirstNonSys(ended) = 0 THEN Append(ended, HelloMsg) ELSE ended

FixInit ==
  /\ LoopInit
  /\ prog = "core"
  /\ PoolIdle
  /\ callMsgs \in MessageSeqs(MaxLen)
  /\ fixed = <<>>
  /\ MemIdle
  /\ LedgerIdle
  /\ MoreIdle

\* LLM.call line 43: msgs = self._fix_roles(messages)
FixCall ==
  /\ fixed = <<>>
  /\ fixed' = <<FixRoles(callMsgs)>>
  /\ UNCHANGED <<loopVars, exceptFix, callMsgs>>

\* _fix_roles applied to a sequence it returned
FixAgain ==
  /\ fixed # <<>>
  /\ Len(fixed) < MaxFix
  /\ fixed' = Append(fixed, FixRoles(fixed[Len(fixed)]))
  /\ UNCHANGED <<loopVars, exceptFix, callMsgs>>

FixNext == FixCall \/ FixAgain

FixSpec == FixInit /\ [][FixNext]_vars

(***************************************************************************)
(* memory/__init__.py  Memory: learn, forget, top_facts                    *)
(***************************************************************************)
\* calls of learn explored per behaviour
MaxLearns == 3

\* texts, priorities, keywords and counts given to the methods
MemTexts == {"X", "x", "xY"}
MemPriorities == {1, 5, 9}
Keywords == {"", "x", "Y", "zz"}
TopNs == {0, 1, 3, 5}

\* a store at capacity, as 50 texts learned 1 to 3 times each leave it
FullStore ==
  [i \in 1..Capacity |->
     LET c == 1 + (i % 3)
         p == 2 + (i % 4)
     IN Fact("fact " \o ToString(i), Min(PriorityCap, p + c - 1), c)]
InitStores == {<<>>, FullStore}

\* a faulty variant: the keyword looked for at the start of the text only
StartsWith(k, t) == Len(k) <= Len(t) /\ SubSeq(t, 1, Len(k)) = k

\* Python "k in t"
Contains(k, t) ==
  \E i \in 1..(Len(t) - Len(k) + 1) : SubSeq(t, i, i + Len(k) - 1) = k

\* Memory.forget: the facts kept
Forget(fs, k) == SelectSeq(fs, LAMBDA f : ~Contains(Lower(k), Lower(f.fact)))

\* the score priority * log2(access_count + 1) of f is above that of g
ScoreAbove(f, g) ==
  Pow(f.access_count + 1, f.priority) > Pow(g.access_count + 1, g.priority)

RECURSIVE InsertByScore(_, _)
InsertByScore(sorted, f) ==
  IF sorted = <<>> THEN <<f>>
  ELSE IF ScoreAbove(f, Head(sorted)) THEN <<f>> \o sorted
       ELSE <<Head(sorted)>> \o InsertByScore(Tail(sorted), f)

RECURSIVE ByScore(_)
\* scored.sort(reverse=True), for scores that are all different
ByScore(fs) ==
  IF fs = <<>> THEN <<>>
  ELSE InsertByScore(ByScore(SubSeq(fs, 1, Len(fs) - 1)), fs[Len(fs)])

\* Python s[:n] for n >= 0
Slice(s, n) == SubSeq(s, 1, Min(n, Len(s)))

\* Memory.top_facts, when it returns
TopFacts(fs, n) == Slice(ByScore(fs), n)

FactsInit ==
  /\ LoopIdle
  /\ prog = "core"
  /\ facts \in InitStores
  /\ patterns = [coordinator |-> 0, tool |-> 0]
  /\ PoolIdle
  /\ FixIdle
  /\ MemIdle
  /\ LedgerIdle
  /\ MoreIdle

\* Memory.learn(t, p)
MemLearn(t, p) ==
  /\ memCalls < MaxLearns
  /\ memCalls' = memCalls + 1
  /\ facts' = Learn(facts, t, p)
  /\ ret' = Ret("learn", t, p, FALSE, <<>>, 0, "")
  /\ UNCHANGED <<agentVars, patterns, exceptMem>>

\* Memory.forget(k)
MemForget(k) ==
  /\ facts' = Forget(facts, k)
  /\ ret' = Ret("forget", k, 0, FALSE, <<>>, Len(facts) - Len(facts'), "")
  /\ UNCHANGED <<agentVars, patterns, exceptMem, memCalls>>

\* Memory.top_facts(n)
MemTopFacts(n) ==
  /\ ret' = IF TopFactsRaises(facts)
            THEN Ret("top_facts", "", n, TRUE, <<>>, 0, "")
            ELSE Ret("top_facts", "", n, FALSE, TopFacts(facts, n), 0, "")
  /\ UNCHANGED <<agentVars, storeVars, exceptMem, memCalls>>

FactsNext ==
  \/ \E t \in MemTexts, p \in MemPriorities : MemLearn(t, p)
  \/ \E k \in Keywords : MemForget(k)
  \/ \E n \in TopNs : MemTopFacts(n)

FactsSpec == FactsInit /\ [][FactsNext]_vars

(***************************************************************************)
(* memory/__init__.py  Memory: log_error, context                          *)
(***************************************************************************)
\* calls of log_error explored per behaviour
MaxLogs == 6

\* characters of the error text kept in a pattern key
PrefixLen == 40
\* characters of the error text kept in a log entry
LogTextLen == 100
\* entries kept in the error log
LogCap == 50
\* characters counted per token of budget
CharsPerToken == 4
\* budget_tokens of context() when none is given
DefaultBudget == 100
\* facts rendered by context
ContextFacts == 3
\* error patterns rendered by context
ContextErrors == 2
\* session summaries rendered by context
ContextSessions == 2
\* characters of a summary rendered by context
SummaryLen == 30

\* error texts: the first two differ only after their 40th character
LongErrorA == "Error: no such file or directory: /tmp/a1"
LongErrorB == "Error: no such file or directory: /tmp/a2"
ShortError == "denied!"
LogCalls == {<<"run_command", LongErrorA>>, <<"run_command", LongErrorB>>,
             <<"read_file", ShortError>>}
Budgets == {0, 15, 40, DefaultBudget}

\* the stores context is called on
Users == {[name |-> "", desktop |-> ""], [name |-> "u", desktop |-> "d"]}
FactStores == {<<>>, <<Fact("X", 5, 1)>>, <<Fact("X", 5, 1), Fact("xY", 5, 1)>>}
SessionLists == {<<>>, <<"fix the build", "write a long report about the quarterly numbers">>}

\* a faulty variant: the whole error text in the key
ErrorKeyWhole(tool, error) == tool \o ":" \o error

\* f"{tool}:{str(error)[:40]}"
ErrorKey(tool, error) == tool \o ":" \o Slice(error, PrefixLen)

\* the place of key in the patterns dict, 0 when it is not a key of it
PatternIndex(ps, key) ==
  IF \E i \in 1..Len(ps) : ps[i].key = key
  THEN CHOOSE i \in 1..Len(ps) : ps[i].key = key
  ELSE 0

\* patterns[key] = patterns.get(key, 0) + 1
CountUp(ps, key) ==
  LET i == PatternIndex(ps, key)
  IN IF i = 0 THEN Append(ps, [key |-> key, n |-> 1])
     ELSE [ps EXCEPT ![i].n = @ + 1]

\* Memory.log_error: the new value of Memory.errors
LogErrorTo(errs, tool, error) ==
  [log |-> LastN(Append(errs.log, [tool |-> tool, error |-> Slice(error, LogTextLen)]),
                 LogCap),
   patterns |-> CountUp(errs.patterns, ErrorKey(tool, error))]

RECURSIVE InsertByCount(_, _)
InsertByCount(sorted, e) ==
  IF sorted = <<>> THEN <<e>>
  ELSE IF e.n > Head(sorted).n THEN <<e>> \o sorted
       ELSE <<Head(sorted)>> \o InsertByCount(Tail(sorted), e)

RECURSIVE ByCount(_)
\* sorted(patterns.items(), key=lambda x: x[1], reverse=True), a stable sort
ByCount(ps) ==
  IF ps = <<>> THEN <<>>
  ELSE InsertByCount(ByCount(SubSeq(ps, 1, Len(ps) - 1)), ps[Len(ps)])

RECURSIVE Join(_, _)
\* sep.join(strs)
Join(strs, sep) ==
  IF strs = <<>> THEN ""
  ELSE IF Len(strs) = 1 THEN strs[1]
       ELSE strs[1] \o sep \o Join(Tail(strs), sep)

RECURSIVE SumLen(_)
SumLen(strs) == IF strs = <<>> THEN 0 ELSE Len(Head(strs)) + SumLen(Tail(strs))

IdentityLine(u) == "User: " \o u.name \o ", Desktop: " \o u.desktop
FactsLine(top) == "Remember: " \o Join([i \in 1..Len(top) |-> top[i].fact], " | ")
Lesson(e) == e.key \o " (" \o ToString(e.n) \o "x)"
LessonsLine(top) == "Avoid: " \o Join([i \in 1..Len(top) |-> Lesson(top[i])], "; ")
\* " > " stands for the three characters of " → "
HistLine(recent) ==
  "Recent: " \o Join([i \in 1..Len(recent) |-> Slice(recent[i], SummaryLen)], " > ")

\* `parts` after a candidate segment: appended when there is something to
\* render, used < budget and used + len(segment) < budget
AddPart(parts, some, line, budget) ==
  IF some /\ SumLen(parts) < budget /\ SumLen(parts) + Len(line) < budget
  THEN Append(parts, line)
  ELSE parts

\* Memory.context, when top_facts returns: the list `parts`
ContextParts(u, fs, errs, sess, budget_tokens) ==
  LET budget == budget_tokens * CharsPerToken
      p1 == IF u.name # "" THEN <<IdentityLine(u)>> ELSE <<>>
      top == TopFacts(fs, ContextFacts)
      p2 == AddPart(p1, top # <<>>, FactsLine(top), budget)
      top_errors == Slice(ByCount(errs.patterns), ContextErrors)
      p3 == AddPart(p2, top_errors # <<>>, LessonsLine(top_errors), budget)
      recent == LastN(sess, ContextSessions)
  IN AddPart(p3, recent # <<>>, HistLine(recent), budget)

\* Memory.context, when top_facts returns: the string returned
Context(u, fs, errs, sess, budget_tokens) ==
  Join(ContextParts(u, fs, errs, sess, budget_tokens), "\n")

LedgerInit ==
  /\ LoopIdle
  /\ prog = "core"
  /\ facts \in FactStores
  /\ patterns = [coordinator |-> 0, tool |-> 0]
  /\ PoolIdle
  /\ FixIdle
  /\ MemIdle
  /\ user \in Users
  /\ errors = [log |-> <<>>, patterns |-> <<>>]
  /\ sessions \in SessionLists
  /\ MoreIdle

\* Memory.log_error(tool, error)
MemLogError(tool, error) ==
  /\ memCalls < MaxLogs
  /\ memCalls' = memCalls + 1
  /\ errors' = LogErrorTo(errors, tool, error)
  /\ patterns' = LogError(patterns, "tool")
  /\ ret' = Ret("log_error", tool, 0, FALSE, <<>>, 0, error)
  /\ UNCHANGED <<agentVars, facts, exceptStore, user, sessions>>

\* Memory.context(budget_tokens)
MemContext(budget_tokens) ==
  /\ ret' = IF TopFactsRaises(facts)
            THEN Ret("context", "", budget_tokens, TRUE, <<>>, 0, "")
            ELSE Ret("context", "", budget_tokens, FALSE, <<>>, 0,
                     Context(user, facts, errors, sessions, budget_tokens))
  /\ UNCHANGED <<agentVars, storeVars, exceptStore, ledgerVars, memCalls>>

LedgerNext ==
  \/ \E c \in LogCalls : MemLogError(c[1], c[2])
  \/ \E b \in Budgets : MemContext(b)

LedgerSpec == LedgerInit /\ [][LedgerNext]_vars

(***************************************************************************)
(* memory/__init__.py  _save, _load                                        *)
(***************************************************************************)
\* the longest document saved
MaxDoc == 2

\* the documents: lists of texts
DocTexts == {"a", "b"}
RECURSIVE DocsOf(_)
DocsOf(n) ==
  IF n = 0 THEN {<<>>}
  ELSE DocsOf(n - 1) \cup {Append(d, t) : d \in {x \in DocsOf(n - 1) : Len(x) = n - 1},
                                          t \in DocTexts}
Docs == DocsOf(MaxDoc)

\* json.dumps(data, indent=2) of a list of texts
Dumps(d) ==
  IF d = <<>> THEN "[]"
  ELSE "[\n  " \o Join([i \in 1..Len(d) |-> "\"" \o d[i] \o "\""], ",\n  ") \o "\n]"

\* _load(name, default): the document of the file when its text parses,
\* the default when it does not
Load(text, default) ==
  IF \E d \in Docs : Dumps(d) = text
  THEN CHOOSE d \in Docs : Dumps(d) = text
  ELSE default

SaveInit ==
  /\ LoopInit
  /\ prog = "core"
  /\ IdleButDisk
  /\ saved \in Docs
  /\ data = saved
  /\ disk = Dumps(saved)
  /\ savePc = "idle"
  /\ crashed = FALSE
  /\ loaded = <<>>

\* _save(name, d) is called: json.dumps builds the text
SaveCall(d) ==
  /\ ~crashed
  /\ savePc = "idle"
  /\ data' = d
  /\ savePc' = "open"
  /\ UNCHANGED <<loopVars, exceptDisk, disk, saved, crashed, loaded>>

\* write_text opens the file for writing, which empties it
SaveOpen ==
  /\ ~crashed
  /\ savePc = "open"
  /\ disk' = ""
  /\ savePc' = "write"
  /\ UNCHANGED <<loopVars, exceptDisk, data, saved, crashed, loaded>>

\* write_text writes the text and closes the file
SaveWrite ==
  /\ ~crashed
  /\ savePc = "write"
  /\ disk' = Dumps(data)
  /\ savePc' = "idle"
  /\ saved' = data
  /\ UNCHANGED <<loopVars, exceptDisk, data, crashed, loaded>>

\* the process is stopped, inside _save or outside of it
Crash ==
  /\ ~crashed
  /\ crashed' = TRUE
  /\ UNCHANGED <<loopVars, exceptDisk, disk, data, savePc, saved, loaded>>

\* the next process loads the document: Memory.__init__, _load("facts", [])
LoadAfterCrash ==
  /\ crashed
  /\ loaded = <<>>
  /\ loaded' = <<Load(disk, <<>>)>>
  /\ UNCHANGED <<loopVars, exceptDisk, disk, data, savePc, saved, crashed>>

SaveNext ==
  \/ \E d \in Docs : SaveCall(d)
  \/ SaveOpen
  \/ SaveWrite
  \/ Crash
  \/ LoadAfterCrash

SaveSpec == SaveInit /\ [][SaveNext]_vars

(***************************************************************************)
(* tools/__init__.py  get_all_schemas                                      *)
(***************************************************************************)
\* files of tools/custom explored
MaxFiles == 2

\* what a custom tool file is to define
Fields == {"NAME", "DESC", "PARAMS", "execute"}

\* a file of tools/custom: its name starts with "_", its module loads, the
\* names it defines, and its PARAMS, when defined, is a dict of triples
Descriptor(hidden, loads, fields, params_ok) ==
  [hidden |-> hidden, loads |-> loads, fields |-> fields, params_ok |-> params_ok]
Template == Descriptor(TRUE, TRUE, Fields, TRUE)
Descriptors ==
  {Template} \cup
  {Descriptor(FALSE, l, f, ok) : l \in BOOLEAN, f \in SUBSET Fields, ok \in BOOLEAN}

RECURSIVE Directories(_)
Directories(n) ==
  IF n = 0 THEN {<<>>}
  ELSE Directories(n - 1) \cup
       {Append(d, f) : d \in {x \in Directories(n - 1) : Len(x) = n - 1},
                       f \in {x \in Descriptors : "PARAMS" \in x.fields \/ x.params_ok}}

\* _t(name, desc, params): the schema of a tool
T(name, desc, params) == [name |-> name, description |-> desc, parameters |-> params]

\* BUILTIN_SCHEMAS
BUILTIN_SCHEMAS ==
  [i \in 1..21 |->
     T(<<"create_file", "read_file", "delete_file", "move_file", "find_files",
         "list_directory", "create_directory", "run_command", "python_exec",
         "web_search", "open_application", "take_screenshot", "mouse_click",
         "mouse_move", "keyboard_type", "keyboard_hotkey", "clipboard_get",
         "clipboard_set", "download_file", "get_active_window", "wait">>[i],
       "builtin", "builtin")]

\* the body of the loop of get_all_schemas appends a schema for the file f:
\* it is not skipped, exec_module and _t do not raise, and the module has
\* NAME and DESC
Registers(f) ==
  /\ ~f.hidden
  /\ f.loads
  /\ {"NAME", "DESC"} \subseteq f.fields
  /\ f.params_ok

\* the schema appended for the file at place i: PARAMS, or {} without it
CustomSchema(files, i) ==
  T("custom" \o ToString(i), "desc",
    IF "PARAMS" \in files[i].fields THEN "params" ELSE "none")

RECURSIVE Discover(_, _, _)
\* the loop of get_all_schemas from the file at place i on
Discover(acc, files, i) ==
  IF i > Len(files) THEN acc
  ELSE Discover(IF Registers(files[i]) THEN Append(acc, CustomSchema(files, i)) ELSE acc,
                files, i + 1)

SchemaInit ==
  /\ LoopInit
  /\ prog = "core"
  /\ IdleButSchema
  /\ custom \in Directories(MaxFiles)
  /\ schemas = <<>>
  /\ discovery = "none"

\* get_all_schemas()
GetAllSchemas ==
  /\ discovery = "none"
  /\ schemas' = Discover(BUILTIN_SCHEMAS, custom, 1)
  /\ discovery' = "returned"
  /\ UNCHANGED <<loopVars, exceptSchema, custom>>

SchemaNext == GetAllSchemas

SchemaSpec == SchemaInit /\ [][SchemaNext]_vars

(***************************************************************************)
(* core/agent.py  _check_pause, and the places Agent.send calls it from    *)
(***************************************************************************)
\* ESC key presses explored per behaviour
MaxKeys == 3

PauseInit ==
  /\ LoopInit
  /\ prog = "core"
  /\ IdleButPause
  /\ PauseIdle

\* the user presses ESC: the key waits in the buffer
PressEsc ==
  /\ kbhit < MaxKeys
  /\ kbhit' = kbhit + 1
  /\ UNCHANGED <<loopVars, exceptPause, ppc, pround, pdone>>

\* send() reaches its loop
PauseSend ==
  /\ ppc = "idle"
  /\ ppc' = "top"
  /\ pround' = 0
  /\ pdone' = 0
  /\ UNCHANGED <<loopVars, exceptPause, kbhit>>

\* _check_pause() at `at`: with no key waiting it returns, and send goes on at
\* `next`; with an ESC waiting it takes the key and waits for another one
CheckPause(at, paused, next) ==
  /\ ppc = at
  /\ IF kbhit > 0
     THEN kbhit' = kbhit - 1 /\ ppc' = paused
     ELSE kbhit' = kbhit /\ ppc' = next
  /\ UNCHANGED <<loopVars, exceptPause, pround, pdone>>

\* the inner loop of _check_pause takes the next ESC and returns
ResumePause(paused, next) ==
  /\ ppc = paused
  /\ kbhit > 0
  /\ kbhit' = kbhit - 1
  /\ ppc' = next
  /\ UNCHANGED <<loopVars, exceptPause, pround, pdone>>

\* the checkpoint at the top of a round, line 235
CheckTop == CheckPause("top", "paused_top", "call")
ResumeTop == ResumePause("paused_top", "call")

\* the backend call and the parse of its output: a tool call, an answer
\* that ends the send, or nothing usable, which ends the round
PauseCall ==
  /\ ppc = "call"
  /\ \/ ppc' = "before_dispatch" /\ pround' = pround
     \/ ppc' = "returned" /\ pround' = pround
     \/ /\ pround' = pround + 1
        /\ ppc' = IF pround + 1 < CoreRounds THEN "top" ELSE "returned"
  /\ UNCHANGED <<loopVars, exceptPause, kbhit, pdone>>

\* the checkpoint before the dispatch, line 270
CheckDispatch == CheckPause("before_dispatch", "paused_dispatch", "dispatch")
ResumeDispatch == ResumePause("paused_dispatch", "dispatch")

\* execute_fn(tool, args) runs and returns, line 271
PauseDispatch ==
  /\ ppc = "dispatch"
  /\ ppc' = "dispatched"
  /\ UNCHANGED <<loopVars, exceptPause, pround, kbhit, pdone>>

\* the result is used: the two messages are appended, lines 281-286, and the
\* loop goes to its next round, or past its last round to the return
PauseAppend ==
  /\ ppc = "dispatched"
  /\ pdone' = pdone + 1
  /\ pround' = pround + 1
  /\ ppc' = IF pround + 1 < CoreRounds THEN "top" ELSE "returned"
  /\ UNCHANGED <<loopVars, exceptPause, kbhit>>

PauseNext ==
  \/ PressEsc
  \/ PauseSend
  \/ CheckTop
  \/ ResumeTop
  \/ PauseCall
  \/ CheckDispatch
  \/ ResumeDispatch
  \/ PauseDispatch
  \/ PauseAppend

PauseSpec == PauseInit /\ [][PauseNext]_vars

(***************************************************************************)
(* core/agent.py, myai.py  _parse_tool: the lookup of the captured word    *)
(***************************************************************************)
\* the longest tool name and word, and the most names registered
MaxName == 2
MaxNames == 2

\* the letters of names and words
Letters == {"a", "b", "A"}
RECURSIVE WordsOf(_)
WordsOf(n) ==
  IF n = 0 THEN {""}
  ELSE WordsOf(n - 1) \cup {w \o c : w \in {x \in WordsOf(n - 1) : Len(x) = n - 1},
                                     c \in Letters}
Words == WordsOf(MaxName) \ {""}

RECURSIVE Registries(_)
\* the lists of different names
Registries(n) ==
  IF n = 0 THEN {<<>>}
  ELSE Registries(n - 1) \cup
       {Append(r, w) : r \in {x \in Registries(n - 1) : Len(x) = n - 1},
                       w \in Words}
DistinctNames(r) == \A i, j \in 1..Len(r) : r[i] = r[j] => i = j

\* name.lower() in tn or tn in name.lower()
Fuzzy(name, tn) == Contains(Lower(name), tn) \/ Contains(tn, Lower(name))

\* the lookup of _parse_tool for one captured word: the word when it is a
\* registered name, else the first registered name that matches it, else None
Lookup(name, names) ==
  IF \E i \in 1..Len(names) : names[i] = name THEN name
  ELSE IF \E i \in 1..Len(names) : Fuzzy(name, names[i])
       THEN names[CHOOSE i \in 1..Len(names) :
                    /\ Fuzzy(name, names[i])
                    /\ \A j \in 1..(i - 1) : ~Fuzzy(name, names[j])]
       ELSE None

ResolveInit ==
  /\ LoopInit
  /\ prog = "core"
  /\ IdleButResolve
  /\ registry \in {r \in Registries(MaxNames) : DistinctNames(r)}
  /\ word \in Words
  /\ resolved = <<>>

\* _parse_tool on a text whose tool keyword is followed by `word`
ParseTool ==
  /\ resolved = <<>>
  /\ resolved' = <<Lookup(word, registry)>>
  /\ UNCHANGED <<loopVars, exceptResolve, registry, word>>

ResolveNext == ParseTool

ResolveSpec == ResolveInit /\ [][ResolveNext]_vars

(***************************************************************************)
(* agents.py  Coordinator._parse: the final answer of a text               *)
(***************************************************************************)
\* the pieces a model output is made of, and the most pieces of one
MaxPieces == 4
\* the markers put in as noise
MaxNoise == 2

Keyword == "Final Answer:"
Pieces == {Keyword, "x", " ", "\n", "#", "**"}

RECURSIVE TextsOf(_)
TextsOf(n) ==
  IF n = 0 THEN {""}
  ELSE {t \o p : t \in TextsOf(n - 1), p \in Pieces \cup {""}}
Texts == TextsOf(MaxPieces)

\* Python t[i-1:j], the places counted from 1
Sub(t, i, j) == IF i > Len(t) \/ j < i THEN "" ELSE SubSeq(t, i, Min(j, Len(t)))
Char(t, i) == Sub(t, i, i)
IsSpace(c) == c \in {" ", "\n"}
LineStart(t, i) == i = 1 \/ Char(t, i - 1) = "\n"

RECURSIVE SkipHashes(_, _, _)
\* the end of #{1,4} from place i: at most n more markers are taken
SkipHashes(t, i, n) ==
  IF n > 0 /\ i <= Len(t) /\ Char(t, i) = "#" THEN SkipHashes(t, i + 1, n - 1) ELSE i

RECURSIVE SkipSpace(_, _)
\* the end of \s* from place i
SkipSpace(t, i) ==
  IF i <= Len(t) /\ IsSpace(Char(t, i)) THEN SkipSpace(t, i + 1) ELSE i

RECURSIVE StripHeadings(_, _)
\* re.sub(r'^#{1,4}\s*', '', text, flags=re.MULTILINE), from place i on
StripHeadings(t, i) ==
  IF i > Len(t) THEN ""
  ELSE IF LineStart(t, i) /\ Char(t, i) = "#"
       THEN StripHeadings(t, SkipSpace(t, SkipHashes(t, i, 4)))
       ELSE Char(t, i) \o StripHeadings(t, i + 1)

RECURSIVE StripBold(_, _)
\* .replace('**', ''), from place i on
StripBold(t, i) ==
  IF i > Len(t) THEN ""
  ELSE IF i < Len(t) /\ Sub(t, i, i + 1) = "**" THEN StripBold(t, i + 2)
       ELSE Char(t, i) \o StripBold(t, i + 1)

RECURSIVE RStrip(_)
RStrip(t) ==
  IF t # "" /\ IsSpace(Char(t, Len(t))) THEN RStrip(Sub(t, 1, Len(t) - 1)) ELSE t
\* str.strip()
Strip(t) == RStrip(Sub(t, SkipSpace(t, 1), Len(t)))

\* the places of `clean` where 'Final Answer' is found
FinalPlaces(clean) ==
  {i \in 1..Len(clean) : Sub(clean, i, i + 11) = "Final Answer"}

\* Coordinator._parse: ("final", text) when the keyword is found, the text
\* being what follows the first keyword and its colon, stripped; the other
\* types are not told apart here
Parse(t) ==
  LET clean == StripBold(StripHeadings(t, 1), 1)
  IN IF FinalPlaces(clean) = {} THEN [type |-> "other", text |-> clean]
     ELSE LET i == CHOOSE k \in FinalPlaces(clean) : \A m \in FinalPlaces(clean) : k <= m
              j == IF Char(clean, i + 12) = ":" THEN i + 13 ELSE i + 12
          IN [type |-> "final", text |-> Strip(Sub(clean, j, Len(clean)))]

\* the noise: a heading marker put at the start of a line, or a bold marker
\* put before or after the keyword or somewhere in what follows it
InKeyword(t, i) == \E k \in 1..Len(t) : Sub(t, k, k + 12) = Keyword /\ k < i /\ i <= k + 12
HeadingPlaces(t) == {i \in 1..Len(t) : LineStart(t, i)}
BoldPlaces(t) == {i \in 1..(Len(t) + 1) : ~InKeyword(t, i)}
PutIn(t, i, m) == Sub(t, 1, i - 1) \o m \o Sub(t, i, Len(t))

NoiseInit ==
  /\ LoopInit
  /\ prog = "coord"
  /\ IdleButNoise
  /\ otext \in Texts
  /\ noisy = otext
  /\ parsed = <<>>
  /\ reparsed = <<>>

\* Coordinator._parse(text)
ParseText ==
  /\ parsed = <<>>
  /\ parsed' = <<Parse(otext)>>
  /\ UNCHANGED <<loopVars, exceptNoise, otext, noisy, reparsed>>

\* the next model output is the same with one more heading marker
NoiseHeading(i) ==
  /\ parsed # <<>>
  /\ reparsed = <<>>
  /\ Len(noisy) - Len(otext) < MaxNoise
  /\ noisy' = PutIn(noisy, i, "#")
  /\ UNCHANGED <<loopVars, exceptNoise, otext, parsed, reparsed>>

\* the next model output is the same with one more bold marker
NoiseBold(i) ==
  /\ parsed # <<>>
  /\ reparsed = <<>>
  /\ Len(noisy) - Len(otext) < MaxNoise
  /\ noisy' = PutIn(noisy, i, "**")
  /\ UNCHANGED <<loopVars, exceptNoise, otext, parsed, reparsed>>

\* Coordinator._parse(noisy)
ParseNoisy ==
  /\ parsed # <<>>
  /\ reparsed = <<>>
  /\ noisy # otext
  /\ reparsed' = <<Parse(noisy)>>
  /\ UNCHANGED <<loopVars, exceptNoise, otext, noisy, parsed>>

NoiseNext ==
  \/ ParseText
  \/ \E i \in HeadingPlaces(noisy) : NoiseHeading(i)
  \/ \E i \in BoldPlaces(noisy) : NoiseBold(i)
  \/ ParseNoisy

NoiseSpec == NoiseInit /\ [][NoiseNext]_vars

(***************************************************************************)
(* The message sequence of a backend call                                  *)
(***************************************************************************)
\* the messages of a loop as role and content
AsMessages(h) == [i \in 1..Len(h) |-> Message(h[i].role, h[i].kind)]

\* myai Agent._call: the forced prefix appended as an assistant message
PrefillMsg == Message("assistant", "THINK:")

\* a backend call is the next step of the running loop
Calling == pc \in {"call", "retry", "w_call"}

\* what that call sends: LLM.call repairs [system] + history; myai _call
\* sends `messages` and the prefix; Coordinator._call_llm and
\* WorkerAgent._call_llm send their `messages` as they are
Sent ==
  IF pc = "w_call" THEN AsMessages(wmsgs)
  ELSE IF prog = "core" THEN FixRoles(AsMessages(<<SysMsg>> \o history))
  ELSE IF prog = "myai"
       THEN AsMessages(messages) \o
            (IF pc = "retry" \/ use_prefill THEN <<PrefillMsg>> ELSE <<>>)
  ELSE AsMessages(messages)

(***************************************************************************)
(* core/agent.py  Agent._trim_history, the contents included               *)
(***************************************************************************)
\* the longest history trimmed
MaxHist == 5

\* characters of a message kept by _trim_history
ContentCap == 400
Ellipsis == "..."

RECURSIVE Filled(_)
\* a text of n characters
Filled(n) ==
  IF n = 0 THEN ""
  ELSE IF n % 2 = 0 THEN LET half == Filled(n \div 2) IN half \o half
       ELSE Filled(n - 1) \o "a"

\* the contents of the messages: short, one character over the ceiling, and
\* at the ceiling with the marker
Contents == {"hi", Filled(ContentCap) \o "b", Filled(ContentCap) \o Ellipsis}
HistMessages == {Message(r, c) : r \in {"user", "assistant"}, c \in Contents}

RECURSIVE Histories(_)
Histories(n) ==
  IF n = 0 THEN {<<>>}
  ELSE Histories(n - 1) \cup
       {Append(h, m) : h \in {x \in Histories(n - 1) : Len(x) = n - 1}, m \in HistMessages}

\* a faulty variant: the marker is appended to every content
TruncateAlways(c) == Slice(c, ContentCap) \o Ellipsis

\* c[:400] + '...' for a content of more than 400 characters
Truncate(c) == IF Len(c) > ContentCap THEN Slice(c, ContentCap) \o Ellipsis ELSE c

\* Agent._trim_history: the last 4 messages, without leading assistant
\* messages, each content truncated
TrimWhole(h) ==
  LET kept == TrimHistory(h)
  IN [i \in 1..Len(kept) |-> Message(kept[i].role, Truncate(kept[i].content))]

TrimInit ==
  /\ LoopInit
  /\ prog = "core"
  /\ IdleButTrim
  /\ prior \in Histories(MaxHist)
  /\ trimmed = <<>>

\* self._trim_history()
TrimCall ==
  /\ trimmed = <<>>
  /\ trimmed' = <<TrimWhole(prior)>>
  /\ UNCHANGED <<loopVars, exceptTrim, prior>>

\* self._trim_history() once more
TrimAgain ==
  /\ Len(trimmed) = 1
  /\ trimmed' = Append(trimmed, TrimWhole(trimmed[1]))
  /\ UNCHANGED <<loopVars, exceptTrim, prior>>

TrimNext == TrimCall \/ TrimAgain

TrimSpec == TrimInit /\ [][TrimNext]_vars

(***************************************************************************)
(* memory/__init__.py  Memory: log_message, save_session                   *)
(***************************************************************************)
\* messages logged per session, and calls of save_session per behaviour
MaxMsgs == 3
MaxCloses == 2

\* characters of a message kept by log_message
LoggedLen == 200
\* characters of a user message kept in a summary
SummaryPiece == 50
\* user messages a summary is built from
SummaryMsgs == 3
\* records kept in the session history
SessionCap == 30

\* the contents logged: short, and longer than a summary keeps
SessionTexts == {"hi", Filled(SummaryPiece) \o "tail"}

\* a session record: the place of its close among the closes, for its id
\* and date, its summary and its number of messages
SessionRecord(n, summary, msgs) == [id |-> n, summary |-> summary, msgs |-> msgs]

\* a session history at its cap, written by 30 earlier closes
FullHistory == [i \in 1..SessionCap |-> SessionRecord(i - SessionCap, "old", 2)]
PastHistories == {<<>>, FullHistory}

\* " | ".join(user_msgs[:3]) if user_msgs else "session"
Summary(msgs) ==
  LET users == SelectSeq(msgs, LAMBDA m : m.role = "user")
      user_msgs == [i \in 1..Len(users) |-> Slice(users[i].text, SummaryPiece)]
  IN IF user_msgs = <<>> THEN "session"
     ELSE Join(Slice(user_msgs, SummaryMsgs), " | ")

SessionInit ==
  /\ LoopIdle
  /\ prog = "core"
  /\ StoreEmpty
  /\ PoolIdle /\ FixIdle /\ MemIdle /\ LedgerIdle
  /\ IdleButSession
  /\ session = <<>>
  /\ pastSessions \in PastHistories
  /\ closes = 0

\* Memory.log_message(role, content)
LogMessage(role, content) ==
  /\ Len(session) < MaxMsgs
  /\ session' = Append(session, [role |-> role, text |-> Slice(content, LoggedLen)])
  /\ UNCHANGED <<pastSessions, closes>>
  /\ UNCHANGED <<loopVars, exceptSession>>

\* Memory.save_session()
SaveSession ==
  /\ closes < MaxCloses
  /\ closes' = closes + 1
  /\ pastSessions' =
       IF session = <<>> THEN pastSessions
       ELSE LastN(Append(pastSessions,
                         SessionRecord(closes + 1, Summary(session), Len(session))),
                  SessionCap)
  /\ UNCHANGED session
  /\ UNCHANGED <<loopVars, exceptSession>>

\* Memory.__init__ of the next process: no _session yet, the history loaded
NextSession ==
  /\ session # <<>>
  /\ session' = <<>>
  /\ UNCHANGED <<pastSessions, closes>>
  /\ UNCHANGED <<loopVars, exceptSession>>

SessionNext ==
  \/ \E r \in {"user", "assistant"}, c \in SessionTexts : LogMessage(r, c)
  \/ SaveSession
  \/ NextSession

SessionSpec == SessionInit /\ [][SessionNext]_vars

(***************************************************************************)
(* memory/__init__.py  _load and the Memory methods on what it returns     *)
(***************************************************************************)
\* calls of Memory methods explored per behaviour
MaxOps == 2

\* the content of a document: no file, a text that is not JSON, or a JSON
\* value with its type, the keys it has when it is a mapping (each with a
\* value of the type the store writes) and what its items are when it is a list
Document(json, keys, items) == [json |-> json, keys |-> keys, items |-> items]
Absent == Document("absent", {}, "none")
Garbage == Document("garbage", {}, "none")
JNumber == Document("number", {}, "none")
JDict(keys) == Document("dict", keys, "none")
JList(items) == Document("list", {}, items)

\* the defaults of Memory.__init__
DefaultUser == JDict({"name", "desktop", "notes"})
DefaultErrors == JDict({"log", "patterns"})
DefaultHistory == JDict({"sessions"})
DefaultFacts == JList("none")

\* the contents a file of the store directory may have
UserFiles == {Absent, Garbage, JList("none"), JDict({}), JDict({"name"}), DefaultUser}
ErrorsFiles == {Absent, Garbage, JNumber, JDict({}), JDict({"log"}), DefaultErrors}
HistoryFiles == {Absent, Garbage, JList("none"), JDict({}), DefaultHistory}
FactsFiles == {Absent, Garbage, JDict({}), JList("none"), JList("facts"), JList("numbers")}

\* _load(name, default), default not None
LoadDoc(doc, default) ==
  IF doc.json = "absent" THEN default
  ELSE IF doc.json = "garbage" THEN default
  ELSE IF doc.json # default.json THEN default
  ELSE doc

\* the Memory methods, and whether each raises on the fields m
MemOps == {"log_error", "learn", "save_session", "context"}
OpRaises(op, m) ==
  CASE op = "log_error" -> ~({"patterns", "log"} \subseteq m.errors.keys)
    [] op = "learn" -> m.facts.items = "numbers"
    [] op = "save_session" -> "sessions" \notin m.history.keys
    [] op = "context" -> \/ ("name" \in m.user.keys /\ "desktop" \notin m.user.keys)
                         \/ m.facts.items = "numbers"

\* the document _save writes at the end of a method that returned
Written(op, m) ==
  CASE op = "log_error" -> [documents EXCEPT !.errors = m.errors]
    [] op = "learn" -> [documents EXCEPT !.facts = JList("facts")]
    [] op = "save_session" -> [documents EXCEPT !.history = m.history]
    [] op = "context" -> documents

LoadInit ==
  /\ LoopIdle
  /\ prog = "core"
  /\ StoreEmpty
  /\ IdleButLoad
  /\ documents \in [user : UserFiles, errors : ErrorsFiles, history : HistoryFiles,
                facts : FactsFiles]
  /\ mem = <<>>
  /\ did = <<>>

\* Memory.__init__(), hw not given
MemConstruct ==
  /\ mem = <<>>
  /\ mem' = [user |-> LoadDoc(documents.user, DefaultUser),
             errors |-> LoadDoc(documents.errors, DefaultErrors),
             history |-> LoadDoc(documents.history, DefaultHistory),
             facts |-> LoadDoc(documents.facts, DefaultFacts)]
  /\ UNCHANGED <<documents, did>>
  /\ UNCHANGED <<loopVars, exceptLoad>>

\* one of log_error, learn of a new text, save_session after a logged
\* message, context
MemCall(op) ==
  /\ mem # <<>>
  /\ Len(did) < MaxOps
  /\ did' = Append(did, [op |-> op, raised |-> OpRaises(op, mem)])
  /\ documents' = IF OpRaises(op, mem) THEN documents ELSE Written(op, mem)
  /\ mem' = IF op = "learn" /\ ~OpRaises(op, mem)
            THEN [mem EXCEPT !.facts = JList("facts")]
            ELSE mem
  /\ UNCHANGED <<loopVars, exceptLoad>>

LoadNext ==
  \/ MemConstruct
  \/ \E op \in MemOps : MemCall(op)

LoadSpec == LoadInit /\ [][LoadNext]_vars

(***************************************************************************)
(* core/agent.py  Agent.send, the contents included                        *)
(***************************************************************************)
\* calls of send explored per behaviour
MaxSends == 2

\* characters of a tool result kept in the history
ResultCap == 200
\* characters of an answer kept in the history
AnswerCap == 300

\* the texts a user types, a tool returns, the model answers
TypedTexts == {"hi", Filled(ContentCap + 4)}
ToolResults == {"ok", Filled(ResultCap + 50)}
AnswerTexts == {"fine", Filled(AnswerCap + 50)}

\* result[:200] + '...' if len(result) > 200 else result
ShortResult(res) ==
  IF Len(res) > ResultCap THEN Slice(res, ResultCap) \o Ellipsis ELSE res

\* the two messages appended after a tool round
ToolRecord(res) ==
  <<Message("assistant", "Used tool. Result: " \o ShortResult(res)),
    Message("user", "Tool result: " \o ShortResult(res) \o "\nNow give ANSWER:")>>

CallInit ==
  /\ LoopIdle
  /\ prog = "core"
  /\ StoreEmpty
  /\ IdleButCall
  /\ agentHistory = <<>>
  /\ userMsg = ""
  /\ sendPc = "idle"
  /\ roundN = 0
  /\ request = <<>>
  /\ sends = 0

\* lines 228-233: the user message appended, the history trimmed
AgentSend(user_msg) ==
  /\ sendPc \in {"idle", "done"}
  /\ sends < MaxSends
  /\ sends' = sends + 1
  /\ userMsg' = user_msg
  /\ agentHistory' = TrimWhole(Append(agentHistory, Message("user", user_msg)))
  /\ roundN' = 0
  /\ sendPc' = "top"
  /\ request' = <<>>
  /\ UNCHANGED <<loopVars, exceptCall>>

\* lines 234-252 and 289-300: the backend call of a round and, when no tool
\* is parsed from the response, the answer
AgentCall ==
  /\ sendPc = "top"
  /\ IF roundN < CoreRounds
     THEN /\ request' = Append(request, agentHistory)
          /\ \/ \* a tool call parses
                /\ sendPc' = "tool"
                /\ UNCHANGED <<agentHistory, roundN>>
             \/ \* an answer
                \E clean \in AnswerTexts :
                  /\ agentHistory' =
                       Append(agentHistory, Message("assistant", Slice(clean, AnswerCap)))
                  /\ sendPc' = "done"
                  /\ UNCHANGED roundN
             \/ \* nothing left of the response after cleaning
                /\ roundN' = roundN + 1
                /\ UNCHANGED <<agentHistory, sendPc>>
             \/ \* "400" or "500" in the error
                /\ agentHistory' = <<Message("user", userMsg)>>
                /\ sendPc' = "retry"
                /\ UNCHANGED roundN
             \/ \* any other error
                /\ sendPc' = "done"
                /\ UNCHANGED <<agentHistory, roundN>>
     ELSE /\ sendPc' = "done"
          /\ UNCHANGED <<agentHistory, roundN, request>>
  /\ UNCHANGED <<userMsg, sends>>
  /\ UNCHANGED <<loopVars, exceptCall>>

\* lines 245-250: the second call after a transient failure
AgentRetry ==
  /\ sendPc = "retry"
  /\ request' = Append(request, agentHistory)
  /\ \/ sendPc' = "tool" /\ UNCHANGED <<agentHistory, roundN>>
     \/ \E clean \in AnswerTexts :
          /\ agentHistory' =
               Append(agentHistory, Message("assistant", Slice(clean, AnswerCap)))
          /\ sendPc' = "done"
          /\ UNCHANGED roundN
     \/ /\ roundN' = roundN + 1
        /\ sendPc' = "top"
        /\ UNCHANGED agentHistory
     \/ sendPc' = "done" /\ UNCHANGED <<agentHistory, roundN>>
  /\ UNCHANGED <<userMsg, sends>>
  /\ UNCHANGED <<loopVars, exceptCall>>

\* lines 270-287: the tool runs, its record and observation are appended,
\* the history is trimmed
AgentTool(res) ==
  /\ sendPc = "tool"
  /\ agentHistory' = TrimWhole(agentHistory \o ToolRecord(res))
  /\ roundN' = roundN + 1
  /\ sendPc' = "top"
  /\ UNCHANGED <<userMsg, request, sends>>
  /\ UNCHANGED <<loopVars, exceptCall>>

CallNext ==
  \/ \E m \in TypedTexts : AgentSend(m)
  \/ AgentCall
  \/ AgentRetry
  \/ \E r \in ToolResults : AgentTool(r)

CallSpec == CallInit /\ [][CallNext]_vars

(***************************************************************************)
(* tools/__init__.py  execute_any on the names get_all_schemas returns     *)
(***************************************************************************)
\* calls of execute_any explored per behaviour
MaxDispatches == 1

\* the NAME the file at place i declares, as CustomSchema renders it
DeclaredName(i) == "custom" \o ToString(i)

\* the file names a directory of n files may have: for each file its
\* declared NAME, a name of its own, or the NAME another file declares
StemsOf(n) ==
  {s \in [1..n -> {DeclaredName(i) : i \in 1..n} \cup {"file" \o ToString(i) : i \in 1..n}] :
     \A i, j \in 1..n : i # j => s[i] # s[j]}

BuiltinNames == {BUILTIN_SCHEMAS[i].name : i \in 1..Len(BUILTIN_SCHEMAS)}

\* the place of the file tools/custom/<name>.py, 0 when there is none
CustomFile(name) ==
  IF \E j \in 1..Len(stems) : stems[j] = name
  THEN CHOOSE j \in 1..Len(stems) : stems[j] = name
  ELSE 0

\* execute_any(name, args): the outcome and the module whose entry point
\* ran (0 for tools.execute, the place of the custom file otherwise)
Dispatch(name) ==
  LET j == CustomFile(name) IN
  IF name \in BuiltinNames THEN [name |-> name, outcome |-> "executed", by |-> 0]
  ELSE IF j = 0 THEN [name |-> name, outcome |-> "unknown", by |-> 0]
  ELSE IF ~custom[j].loads THEN [name |-> name, outcome |-> "error", by |-> j]
  ELSE IF "execute" \in custom[j].fields
       THEN [name |-> name, outcome |-> "executed", by |-> j]
       ELSE [name |-> name, outcome |-> "unknown", by |-> j]

DispatchInit ==
  /\ LoopInit
  /\ prog = "core"
  /\ PoolIdle /\ FixIdle /\ MemIdle /\ LedgerIdle /\ DiskIdle /\ PauseIdle /\ ResolveIdle /\ NoiseIdle /\ TrimIdle /\ SessionIdle /\ LoadIdle /\ CallIdle
  /\ custom \in Directories(MaxFiles)
  /\ schemas = <<>>
  /\ discovery = "none"
  /\ stems \in StemsOf(Len(custom))
  /\ dispatched = <<>>

\* get_all_schemas() on the directory
DispatchDiscover ==
  /\ GetAllSchemas
  /\ UNCHANGED <<stems, dispatched>>

\* execute_any(name, args) for the name of a schema returned
ExecuteAnyCall(k) ==
  /\ discovery = "returned"
  /\ Len(dispatched) < MaxDispatches
  /\ dispatched' = Append(dispatched, Dispatch(schemas[k].name))
  /\ UNCHANGED stems
  /\ UNCHANGED <<loopVars, exceptDispatch>>

DispatchNext ==
  \/ DispatchDiscover
  \/ \E k \in 1..Len(schemas) : ExecuteAnyCall(k)

DispatchSpec == DispatchInit /\ [][DispatchNext]_vars

(***************************************************************************)
(* Properties                                                              *)
(***************************************************************************)
Running == pc \notin {"idle", "done", "raised"}
SingleTier == prog \in {"core", "myai"}

\* the step condition of C1
C1_WorkerScope_Step ==
  /\ pc' = "w_dispatch" =>
       /\ wrole' \in DOMAIN TOOL_GROUPS
       /\ curTool' = wresp'.action
       /\ curTool' \in TOOL_GROUPS[wrole']
  /\ (pc = "w_parse" /\ wresp.final = None /\ wresp.action # None
        /\ wresp.action \notin TOOL_GROUPS[wrole]) =>
       /\ pc' = "w_top"
       /\ wround' = wround + 1
       /\ curTool' = curTool
       /\ lastObs'.kind = "scope"
       /\ lastObs'.names = TOOL_GROUPS[wrole]
       /\ Len(wmsgs') = Len(wmsgs) + 2

\* C1: a worker dispatches a tool only if it is in TOOL_GROUPS[role]; for any
\* other parsed action name the round dispatches nothing and the observation
\* fed back lists the role's allowed tools.
C1_WorkerScope == [][C1_WorkerScope_Step]_vars

\* C1 witness: a worker was refused an out-of-scope tool
C1_Witness ==
  /\ pc = "w_top" /\ wrole = "researcher" /\ wresp.action = "delete_file"
  /\ lastObs.kind = "scope"

\* a rank of the position inside a round, falling along the round
PcRank ==
  CASE pc = "top" -> 7 [] pc = "paused_top" -> 6 [] pc = "call" -> 5
    [] pc = "retry" -> 4 [] pc = "parse" -> 3 [] pc = "paused_tool" -> 2
    [] pc = "dispatch" -> 1 [] OTHER -> 0

WorkerRank ==
  CASE pc = "w_top" -> 4 [] pc = "w_call" -> 3 [] pc = "w_parse" -> 2
    [] pc = "w_dispatch" -> 1 [] OTHER -> 0

\* the number of steps a turn can still take, at most: rounds left, then the
\* worker's rounds left, then the position inside the round
StepsLeft ==
  IF ~Running THEN 0
  ELSE CASE prog = "core" -> (4 - round) * 8 + PcRank
         [] prog = "myai" -> (8 - round) * 8 + PcRank
         [] OTHER ->
              (12 - round) * 40
              + (IF WorkerRank > 0 THEN (5 - wround) * 4 + WorkerRank ELSE 30 + PcRank)

InLoopBody == pc \in {"paused_top", "call", "retry", "parse", "paused_tool", "dispatch",
                      "w_top", "w_call", "w_parse", "w_dispatch"}
InWorkerBody == pc \in {"w_call", "w_parse", "w_dispatch"}

WithinBudget ==
  /\ prog = "core" => round <= 4 /\ calls <= 2 /\ (InLoopBody => round < 4)
  /\ prog = "myai" => round <= 8 /\ calls <= 2 /\ (InLoopBody => round < 8)
  /\ prog = "coord" => round <= 12 /\ calls <= 1 /\ (InLoopBody => round < 12)
  /\ wround <= 5 /\ (InWorkerBody => wround < 5)

\* the step condition of C2
C2_RoundBudget_Step ==
  /\ WithinBudget'
  /\ StepsLeft' >= 0
  /\ Running => StepsLeft' < StepsLeft

\* C2: every loop stays within its round budget (core 4 rounds of at most 2
\* backend calls, myai 8, Coordinator 12, worker 5), and every step of a
\* running turn uses up the steps the budget leaves, so the turn ends.
C2_RoundBudget == [][C2_RoundBudget_Step]_vars

\* C2 witness: the Coordinator used up its 12 rounds, the last one on a worker
\* that used up its own 5
C2_Witness ==
  /\ prog = "coord" /\ pc = "done" /\ round = 12 /\ result = Res("fixed", FALSE)
  /\ lastObs.kind = "worker"

\* the step condition of C3
C3_DispatchNeverRaises_Step ==
  pc \in {"dispatch", "w_dispatch"} =>
    /\ exc' = None
    /\ pc' = (IF pc = "dispatch" THEN "top" ELSE "w_top")

\* C3: tool dispatch never raises into the loop: every dispatch hands back a
\* result text and the loop goes on to its next round.
C3_DispatchNeverRaises == [][C3_DispatchNeverRaises_Step]_vars

\* the step condition of C4
C4_FinalAnswerFirst_Step ==
  /\ (pc = "parse" /\ resp.final = "text"
        /\ (resp.action # None \/ resp.delegate # None)) =>
       (pc' = "done" /\ result' = Res("final", FALSE))
  /\ (pc = "w_parse" /\ wresp.final = "text" /\ wresp.action # None) =>
       (pc' = "top" /\ lastObs' = Obs("worker", TRUE, {}))

\* C4: an output that holds a final-answer marker with trailing text and also
\* a tool or delegation marker is returned as the final answer; nothing is
\* dispatched or delegated in that round (in all four loops).
C4_FinalAnswerFirst == [][C4_FinalAnswerFirst_Step]_vars

\* the output is neither a tool call nor an answer for the single-tier loop
Unparseable(r) ==
  /\ (IF prog = "core" THEN CoreParseTool(r) ELSE MyaiParseTool(r)) = None
  /\ r.final = None

\* the step condition of C5
C5_OneReprompt_Step ==
  /\ reprompts' <= 1
  /\ (SingleTier /\ pc = "parse" /\ Unparseable(resp) /\ reprompts = 0) =>
       (reprompts' = 1 /\ pc' = "top" /\ round' = round + 1)
  /\ (SingleTier /\ pc = "parse" /\ Unparseable(resp) /\ reprompts = 1) =>
       (pc' = "done" /\ result'.kind = "raw")

\* C5: in the single-tier loops the first unparseable output of a turn, in
\* whichever round, is answered by one corrective re-prompt and a further
\* round; the next one is returned as-is; no turn re-prompts twice.
C5_OneReprompt == [][C5_OneReprompt_Step]_vars

\* C6: no failure terminates the process: send() always returns to its
\* caller and no exception leaves it.
C6_SendNeverRaises == pc # "raised" /\ exc = None

\* the step condition of C7
C7_TrimAndRetry_Step ==
  /\ (pc = "call" /\ pc' = "retry") =>
       /\ SingleTier /\ calls' = 1
       /\ prog = "core" => history' = <<Msg("user", "msg")>>
       /\ prog = "myai" =>
            /\ Len(history') = (IF Len(history) < 2 THEN Len(history) ELSE 2)
            /\ \A i \in 1..Len(history') :
                 history'[i] = history[Len(history) - Len(history') + i]
  /\ pc = "retry" =>
       /\ calls' = 2
       /\ pc' \in {"parse", "done"}
       /\ pc' = "done" => result' \in {Res("error", FALSE), Res("null", TRUE)}
       /\ UNCHANGED <<history, patterns, curTool>>
  /\ pc = "done" => (turn' = turn + 1 /\ calls' = 0)
  /\ pc' = "retry" => pc = "call"
  /\ calls' <= 2

\* C7: a transient backend failure cuts the history down (core: to the user
\* message alone; myai: to its last 2 messages) and is followed by exactly
\* one further backend call; if that fails too the turn ends with an error
\* result (core: an error string; myai: None), and nothing more is called or
\* dispatched in the turn.
C7_TrimAndRetry == [][C7_TrimAndRetry_Step]_vars

\* C7 witness: the retry of the core Agent failed and the turn ended with its
\* error string, the history cut down to the user message
C7_Witness ==
  /\ prog = "core" /\ pc = "done" /\ calls = 2 /\ round = 1
  /\ result = Res("error", FALSE) /\ history = <<Msg("user", "msg")>>

\* the step condition of C8
C8_FatalLogged_Step ==
  (pc = "call" /\ pc' = "done") =>
    /\ patterns'.coordinator + patterns'.tool = patterns.coordinator + patterns.tool + 1
    /\ result'.kind \in {"error", "null"}

\* C8: a non-transient backend failure ends the turn at once and is counted
\* in the ErrorPattern ledger, in each of the three loops.
C8_FatalLogged == [][C8_FatalLogged_Step]_vars

\* the step condition of C9
C9_ExhaustedNonEmpty_Step ==
  /\ (pc = "top" /\ pc' = "done") => (~result'.empty /\ result'.kind # "null")
  /\ (pc = "w_top" /\ pc' = "top") => (lastObs'.kind = "worker" /\ lastObs'.ok)

\* C9: when the rounds are used up, send() (and a worker's execute) returns a
\* text that is neither empty nor null.
C9_ExhaustedNonEmpty == [][C9_ExhaustedNonEmpty_Step]_vars

\* the step condition of C10
C10_UnknownRole_Step ==
  (prog = "coord" /\ pc = "parse" /\ resp.final = None /\ resp.task
     /\ resp.delegate # None /\ resp.delegate \notin DOMAIN TOOL_GROUPS) =>
    /\ pc' = "top"
    /\ round' = round + 1
    /\ exc' = None
    /\ wrole' = None /\ wmsgs' = <<>>
    /\ lastObs'.kind = "noworker"
    /\ lastObs'.names = DOMAIN TOOL_GROUPS
    /\ history' = history \o <<Msg("assistant", "ans"), Msg("user", "obs")>>
    /\ messages' = messages \o <<Msg("assistant", "ans"), Msg("user", "obs")>>

\* C10: a Delegate intent for a role that is no key of the workers invokes no
\* worker and raises nothing: the observation lists the valid roles, the
\* response and the observation are appended to the history, and the loop
\* goes on to the next round.
C10_UnknownRole == [][C10_UnknownRole_Step]_vars

\* C10 witness: the round after a delegation to the unknown role "nobody"
C10_Witness ==
  /\ prog = "coord" /\ pc = "top" /\ round = 1 /\ resp.delegate = "nobody"
  /\ lastObs.kind = "noworker" /\ Len(history) = 3

\* the call e takes a step of execute() (not the taking of its result)
ExecStep(e) ==
  /\ execs'[e] # execs[e]
  /\ ~(execs[e].pc = "done" /\ execs'[e].pc = "idle")

\* every message of the list of call e is of the task of e
OwnList(e) ==
  LET l == lists[e] IN
  l # <<>> =>
    /\ Len(l) >= 2 /\ l[1] = SysMsg /\ l[2] = Msg("user", execs[e].task)
    /\ \A i \in 3..Len(l) :
         l[i] = Msg("user", "obs") \/ (l[i].role = "assistant" /\ l[i].kind[1] = execs[e].task)

\* the step condition of C11
C11_WorkerIsolation_Step ==
  \A e \in ExecIds :
    /\ OwnList(e)'
    /\ execs'[e].run = execs[e].run + 1 =>
         /\ lists'[e] = <<SysMsg, Msg("user", execs'[e].task)>>
         /\ execs'[e].round = 0
    /\ ExecStep(e) =>
         /\ history' = history
         /\ \A f \in ExecIds \ {e} : lists'[f] = lists[f] /\ execs'[f] = execs[f]
    /\ (execs[e].pc \notin {"done", "raised"} /\ execs'[e].pc \in {"done", "raised"}) =>
         execs'[e].result \in Alone(execs'[e].role, execs'[e].task)
    /\ (execs[e].pc = "done" /\ execs'[e].pc = "idle") =>
         /\ history' = history \o <<Msg("assistant", "ans"), Msg("user", "obs")>>
         /\ lists' = lists

\* C11: every execute() call starts from [system, task] whatever ran before or
\* runs beside it; its steps leave Coordinator.history and the other call's
\* list alone; it returns what it returns when run by itself; only the
\* result string is taken into the Coordinator's history.
C11_WorkerIsolation == [][C11_WorkerIsolation_Step]_vars

\* C11 witness: a second call of the same worker ended after rounds taken
\* while another call, started before it ended, is in a later round
C11_Witness ==
  /\ execs[1].pc = "done" /\ execs[1].run = 2 /\ execs[1].round >= 1
  /\ execs[2].pc = "parse" /\ execs[2].round >= 1
  /\ execs[1].role = execs[2].role /\ execs[1].task # execs[2].task
  /\ Len(lists[1]) > 2 /\ Len(lists[2]) > 2

\* the roles of a message sequence
RolesOf(s) == [i \in 1..Len(s) |-> s[i].role]

\* C12: _fix_roles applied to what it returned gives the same sequence, in
\* roles and in contents.
C12_FixRolesIdempotent ==
  \A k \in 2..Len(fixed) : fixed[k] = fixed[1]

\* C12 witness: an input that starts on an assistant message, holds two
\* messages of one role in a row and ends on an assistant message, repaired twice
C12_Witness ==
  /\ Len(fixed) = 2
  /\ RolesOf(callMsgs) = <<"assistant", "user", "user", "assistant">>
  /\ Len(fixed[1]) = 5

\* the messages of s that are not system messages, in order
NonSystem(s) == SelectSeq(s, LAMBDA m : m.role # "system")

\* C13: the repaired sequence alternates user/assistant strictly over its
\* non-system messages and has at most one system message, the leading one.
C13_FixRolesAlternates ==
  fixed # <<>> =>
    LET out == fixed[1]
        ns == NonSystem(out)
    IN /\ \A i \in 1..(Len(ns) - 1) : ns[i].role # ns[i + 1].role
       /\ \A i \in 2..Len(out) : out[i].role # "system"

\* C14: the repaired sequence has a non-system message, its first non-system
\* message is a user message, and its last message is no assistant message.
C14_FixRolesEnds ==
  fixed # <<>> =>
    LET out == fixed[1] IN
    /\ FirstNonSys(out) > 0
    /\ out[FirstNonSys(out)].role = "user"
    /\ out[Len(out)].role # "assistant"

\* C14 witness: the repair of a sequence of system messages only, and so of
\* one without any message to begin or to end on
C14_Witness ==
  /\ RolesOf(callMsgs) = <<"system", "system">>
  /\ fixed # <<>>
  /\ RolesOf(fixed[1]) = <<"system", "system", "user">>

\* a call of learn has just been made
LearnStep == memCalls' = memCalls + 1 /\ ret'.op = "learn"

\* the facts of a store whose text is t when case is ignored
SameText(fs, t) == {i \in 1..Len(fs) : Lower(fs[i].fact) = Lower(t)}

\* the step condition of C15
C15_LearnDedup_Step ==
  /\ (LearnStep /\ SameText(facts, ret'.text) # {}) =>
       /\ Len(facts') = Len(facts)
       /\ \E i \in SameText(facts, ret'.text) :
            /\ facts'[i].fact = facts[i].fact
            /\ facts'[i].priority =
                 (IF facts[i].priority >= 10 THEN 10 ELSE facts[i].priority + 1)
            /\ facts'[i].access_count = facts[i].access_count + 1
            /\ \A j \in 1..Len(facts) : j # i => facts'[j] = facts[j]
  /\ (LearnStep /\ facts = <<Fact("X", 5, 1)>> /\ ret'.text = "x" /\ ret'.n = 5) =>
       facts' = <<Fact("X", 6, 2)>>

\* C15: learning a text that equals a stored fact's text ignoring case adds
\* no fact: that fact's priority goes up by 1 (at most to 10) and its access
\* count by 1, every other fact stays; learn("X",5), learn("x",5) on an empty
\* store leave one fact with access count 2 and priority 6.
C15_LearnDedup == [][C15_LearnDedup_Step]_vars

\* C15 witness: the store after learn("X", 5) and learn("x", 5)
C15_Witness ==
  /\ memCalls = 2 /\ ret.op = "learn" /\ ret.text = "x" /\ ret.n = 5
  /\ facts = <<Fact("X", 6, 2)>>

\* the set of the facts of a store
FactSet(fs) == {fs[i] : i \in 1..Len(fs)}

\* the step condition of C16
C16_Capacity_Step ==
  /\ Len(facts) <= 50 => Len(facts') <= 50
  /\ (LearnStep /\ Len(facts) = 50 /\ SameText(facts, ret'.text) = {}) =>
       \A added \in {Append(facts, Fact(ret'.text, ret'.n, 1))} :
       /\ Len(facts') = 50
       /\ \E d \in 1..51 :
            /\ FactSet(facts') = {added[j] : j \in (1..51) \ {d}}
            /\ \A i \in 1..50 :
                 facts'[i].priority * facts'[i].access_count
                   >= added[d].priority * added[d].access_count

\* C16: the store never grows beyond 50 facts; a learn that makes it 51
\* drops exactly one fact, one of the lowest priority x access count, so
\* that no fact kept has a lower one than the fact dropped.
C16_Capacity == [][C16_Capacity_Step]_vars

\* C16 witness: a new fact learned into a store of 50 has taken the place
\* of a stored fact
C16_Witness ==
  /\ Len(facts) = 50 /\ ret.op = "learn" /\ memCalls = 1
  /\ \E i \in 1..50 : facts[i].fact = ret.text /\ facts[i].access_count = 1
  /\ \E i \in 1..50 : FullStore[i] \notin FactSet(facts)

\* a call of forget has just been made
ForgetStep == ret'.op = "forget" /\ memCalls' = memCalls

\* the text holds the keyword, case ignored: at some place of the text the
\* characters of the keyword follow one another
HasKeyword(text, k) ==
  LET t == Lower(text)
      w == Lower(k)
  IN \E at \in 0..Len(t) :
       /\ at + Len(w) <= Len(t)
       /\ \A i \in 1..Len(w) : SubSeq(t, at + i, at + i) = SubSeq(w, i, i)

\* the step condition of C17
C17_Forget_Step ==
  ForgetStep =>
    \A kept \in {{i \in 1..Len(facts) : ~HasKeyword(facts[i].fact, ret'.text)}} :
    /\ Len(facts') = Cardinality(kept)
    /\ ret'.count = Len(facts) - Len(facts')
    /\ \A j \in kept : facts'[Cardinality({m \in kept : m <= j})] = facts[j]
    /\ kept = 1..Len(facts) => (facts' = facts /\ ret'.count = 0)

\* C17: forget(keyword) removes exactly the facts whose text holds the
\* keyword ignoring case and returns how many they are; the other facts stay
\* as they are and in their order; when none matches, nothing changes and 0
\* is returned.
C17_Forget == [][C17_Forget_Step]_vars

\* C17 witness: forget("Y") has removed the fact "xY" and kept another
C17_Witness ==
  /\ ret.op = "forget" /\ ret.text = "Y" /\ ret.count = 1
  /\ Len(facts) = 1 /\ facts[1].fact = "X"

\* C18: top_facts(n) returns at most min(n, size) facts of the store, in
\* non-increasing order of priority x log2(access count + 1), and leaves out
\* no fact that scores above one it returns.
C18_TopFacts ==
  ret.op = "top_facts" =>
    /\ ~ret.raised
    /\ Len(ret.facts) <= ret.n /\ Len(ret.facts) <= Len(facts)
    /\ \A i \in 1..Len(ret.facts) : ret.facts[i] \in FactSet(facts)
    /\ \A i \in 1..(Len(ret.facts) - 1) : ~ScoreAbove(ret.facts[i + 1], ret.facts[i])
    /\ \A f \in FactSet(facts) \ FactSet(ret.facts) :
         \A i \in 1..Len(ret.facts) : ~ScoreAbove(f, ret.facts[i])

\* C19: the string returned by Memory.context(budget_tokens) is at most
\* budget_tokens * 4 characters long, the identity line and the newlines
\* between the segments counted
C19_ContextWithinBudget ==
  (ret.op = "context" /\ ~ret.raised) => Len(ret.str) <= ret.n * 4

\* two logged errors of the same tool whose texts share their first 40 characters
SameClass(a, b) ==
  /\ a.tool = b.tool
  /\ SubSeq(a.error, 1, Min(40, Len(a.error))) = SubSeq(b.error, 1, Min(40, Len(b.error)))

\* the logged errors of the class of a
Occurrences(a) == {j \in 1..Len(errors.log) : SameClass(errors.log[j], a)}

\* the pattern e is rendered in the string context returned, and where
Rendered(e) == Contains(Lesson(e), ret.str)
Place(e) ==
  CHOOSE i \in 1..Len(ret.str) :
    /\ SubSeq(ret.str, i, i + Len(Lesson(e)) - 1) = Lesson(e)
    /\ \A j \in 1..(i - 1) : SubSeq(ret.str, j, j + Len(Lesson(e)) - 1) # Lesson(e)

\* C20: the failed dispatches of one tool whose error texts share their prefix
\* have one ErrorPattern entry, keyed by tool and prefix, whose count is their
\* number; and context renders the patterns in descending count: a pattern is
\* rendered only with, and after, every pattern of a greater count
C20_ErrorPatterns ==
  /\ \A j \in 1..Len(errors.log) :
       \E i \in 1..Len(errors.patterns) :
         /\ errors.patterns[i].key =
              errors.log[j].tool \o ":" \o
              SubSeq(errors.log[j].error, 1, Min(40, Len(errors.log[j].error)))
         /\ errors.patterns[i].n = Cardinality(Occurrences(errors.log[j]))
         /\ \A k \in 1..Len(errors.patterns) :
              errors.patterns[k].key = errors.patterns[i].key => k = i
  /\ \A i \in 1..Len(errors.patterns) :
       \E j \in 1..Len(errors.log) :
         errors.patterns[i].key = ErrorKey(errors.log[j].tool, errors.log[j].error)
  /\ (ret.op = "context" /\ ~ret.raised) =>
       /\ \A a, b \in 1..Len(errors.patterns) :
            (Rendered(errors.patterns[b]) /\ errors.patterns[a].n > errors.patterns[b].n)
              => /\ Rendered(errors.patterns[a])
                 /\ Place(errors.patterns[a]) < Place(errors.patterns[b])
       /\ (ret.n = DefaultBudget /\ errors.patterns # <<>>)
            => \E a \in 1..Len(errors.patterns) :
                 /\ Rendered(errors.patterns[a])
                 /\ \A b \in 1..Len(errors.patterns) :
                      errors.patterns[b].n <= errors.patterns[a].n

\* five failures of run_command with two texts of one prefix, logged after one
\* failure of read_file, and context rendering the pattern of count 5 before
\* the pattern of count 1
C20_Witness ==
  /\ ret.op = "context"
  /\ ~ret.raised
  /\ Len(errors.patterns) = 2
  /\ errors.patterns[1].n = 1
  /\ errors.patterns[2].n = 5
  /\ \E i, j \in 1..Len(errors.log) :
       errors.log[i].error = LongErrorA /\ errors.log[j].error = LongErrorB
  /\ Rendered(errors.patterns[1])
  /\ Rendered(errors.patterns[2])
  /\ Place(errors.patterns[2]) < Place(errors.patterns[1])

\* C21: after a crash at any point of a save the file holds the complete
\* previous document or the complete new one, and a load returns one of the two
C21_SaveAtomic ==
  crashed =>
    /\ disk \in {Dumps(saved), Dumps(data)}
    /\ \A i \in 1..Len(loaded) : loaded[i] \in {saved, data}

\* the places of the files of tools/custom that have a schema in the list returned
Registered == {i \in 1..Len(custom) : \E k \in 1..Len(schemas) :
                 schemas[k].name = "custom" \o ToString(i)}

\* C22: get_all_schemas returns, keeps the built-in schemas, and registers a
\* custom tool file only if it loads and has a name, a description, a
\* parameter spec and an execute function
C22_Discovery ==
  discovery # "none" =>
    /\ discovery = "returned"
    /\ Len(schemas) >= Len(BUILTIN_SCHEMAS)
    /\ SubSeq(schemas, 1, Len(BUILTIN_SCHEMAS)) = BUILTIN_SCHEMAS
    /\ \A i \in Registered : custom[i].loads /\ custom[i].fields = Fields

\* C23: a pause check is made at the top of every round, and between the return
\* of a tool dispatch and the next use of its result: the step that follows the
\* return of a dispatch is the checkpoint, not the append, the next call or
\* the return of send
C23_PauseCheckpoints_Step ==
  /\ ppc' = "call" => ppc \in {"top", "paused_top"}
  /\ (ppc = "dispatched" /\ ppc' # ppc) => ppc' \in {"after_dispatch", "paused_after"}
C23_PauseCheckpoints == [][C23_PauseCheckpoints_Step]_vars

\* the word is part of the name, letter case set aside
PartOf(w, n) == Contains(Lower(w), Lower(n))

\* C24: a word that is not a registered name, and that is, letter case set
\* aside, part of the registered name N and of no other registered name,
\* resolves to N
C24_FuzzyResolve ==
  \A k \in 1..Len(resolved) : \A i \in 1..Len(registry) :
    ( /\ \A j \in 1..Len(registry) : registry[j] # word
      /\ PartOf(word, registry[i])
      /\ \A j \in 1..Len(registry) : j # i => ~PartOf(word, registry[j]) )
    => resolved[k] = registry[i]

\* C25: when _parse returns a final answer for a text, it returns a final
\* answer with the same trimmed text for that text with markup noise put in
C25_NoiseInvariant ==
  \A i \in 1..Len(parsed) : \A j \in 1..Len(reparsed) :
    parsed[i].type = "final" => reparsed[j] = parsed[i]

\* the messages of a call but the system ones and the forced prefix
Spoken(s) == SelectSeq(s, LAMBDA m : m.role # "system" /\ m # PrefillMsg)

\* C26: every message sequence sent to the backend, by any loop and after any
\* turns, has a user message as its first non-system message and no two
\* adjacent non-system messages of the same role, the forced prefix set aside
C26_RepairedBeforeCall ==
  Calling =>
    /\ Spoken(Sent) # <<>>
    /\ Spoken(Sent)[1].role = "user"
    /\ \A i \in 1..(Len(Spoken(Sent)) - 1) : Spoken(Sent)[i].role # Spoken(Sent)[i + 1].role

\* C27: after _trim_history the history holds at most 4 messages, does not
\* begin with an assistant message, and no content is longer than 400
\* characters and the 3 of the marker; a second _trim_history changes nothing
C27_TrimHistory ==
  \A k \in 1..Len(trimmed) :
    /\ Len(trimmed[k]) <= 4
    /\ trimmed[k] # <<>> => trimmed[k][1].role # "assistant"
    /\ \A i \in 1..Len(trimmed[k]) : Len(trimmed[k][i].content) <= 400 + 3
    /\ trimmed[k] = trimmed[1]

\* a history of 5 messages whose last 4 begin with an assistant message and
\* hold a content over the ceiling, trimmed twice
C27_Witness ==
  /\ Len(trimmed) = 2
  /\ Len(prior) = 5
  /\ prior[2].role = "assistant"
  /\ \E i \in 3..5 : Len(prior[i].content) = 401
  /\ \E i \in 1..Len(trimmed[1]) : Len(trimmed[1][i].content) = 403
  /\ Len(trimmed[1]) \in 1..3

\* the history h2 is a tail of the history h followed by the record of a tool
\* call and its observation
TwoAppended(h, h2) ==
  /\ Len(h2) >= 2
  /\ h2[Len(h2) - 1].role = "assistant"
  /\ h2[Len(h2)] = Msg("user", "obs")
  /\ \E k \in 0..Len(h) : SubSeq(h2, 1, Len(h2) - 2) = SubSeq(h, k + 1, Len(h))

\* the step condition of C28
C28_ToolRound_Step ==
  /\ pc = "dispatch" =>
       /\ curTool # None
       /\ TwoAppended(history, history')
       /\ pc' = "top"
       /\ round' = round + 1
  /\ calls' # calls /\ calls' # 0 => pc \in {"call", "retry"}

\* C28: every tool round dispatches one tool and appends two messages to the
\* history of its actor, the record of the call and then the observation, and
\* the actor's next backend call comes after both
C28_ToolRound == [][C28_ToolRound_Step]_vars

\* the step condition of C29
C29_FailureCounted_Step ==
  /\ (pc \in {"dispatch", "w_dispatch"} /\ pc' \in {"top", "w_top"}) =>
       /\ patterns'.coordinator = patterns.coordinator
       /\ patterns'.tool \in {patterns.tool, patterns.tool + 1}
  /\ (pc = "w_dispatch" /\ pc' = "w_top") =>
       patterns'.tool = (IF lastObs'.ok THEN patterns.tool ELSE patterns.tool + 1)
  /\ (prog = "coord" /\ pc = "dispatch" /\ pc' = "top") =>
       patterns'.tool = (IF lastObs'.ok THEN patterns.tool ELSE patterns.tool + 1)

\* C29: a tool execution that fails adds exactly one to the ErrorPattern
\* counter of its tool and error, and one that succeeds adds nothing, whether
\* the single-tier Agent, the Coordinator or a Worker dispatched the tool
C29_FailureCounted == [][C29_FailureCounted_Step]_vars

\* the longest history a send leaves when it starts from a history within the
\* limit the actor keeps: 4 kept and an answer for the core Agent, 8 kept and
\* 8 tool rounds for the myai Agent, and for the Coordinator, which keeps no
\* limit, the user message and 12 rounds
HistoryBound ==
  CASE prog = "core" -> CoreKeep + 1
    [] prog = "myai" -> MyaiCompactAt + 2 * MyaiRounds
    [] prog = "coord" -> 1 + 2 * CoordRounds

\* C30: the history of an actor never grows over a bound that is the same
\* for every number of turns
C30_HistoryBounded == Len(history) <= HistoryBound

\* the candidate segments of context on the present store, in their order:
\* identity line, top facts, top error lessons, recent session summaries
Candidates ==
  LET top == TopFacts(facts, ContextFacts)
      top_errors == Slice(ByCount(errors.patterns), ContextErrors)
      recent == LastN(sessions, ContextSessions)
  IN (IF user.name # "" THEN <<IdentityLine(user)>> ELSE <<>>)
     \o (IF top # <<>> THEN <<FactsLine(top)>> ELSE <<>>)
     \o (IF top_errors # <<>> THEN <<LessonsLine(top_errors)>> ELSE <<>>)
     \o (IF recent # <<>> THEN <<HistLine(recent)>> ELSE <<>>)

RECURSIVE WholeSegments(_, _, _)
\* the segments included when each candidate, the identity line too, is
\* taken whole if the running count stays under the budget and skipped if not
WholeSegments(cands, used, budget) ==
  IF cands = <<>> THEN <<>>
  ELSE IF used + Len(Head(cands)) < budget
       THEN <<Head(cands)>> \o WholeSegments(Tail(cands), used + Len(Head(cands)), budget)
       ELSE WholeSegments(Tail(cands), used, budget)

\* C31: context returns, and what it returns are the candidate segments
\* identity line, top facts, error lessons, session summaries in that order,
\* each whole, each included exactly when the running character count with
\* it stays under budget_tokens * 4 (the identity line as the others), a
\* segment that does not fit being skipped and the later ones still tried.
C31_WholeSegments ==
  ret.op = "context" =>
    /\ ~ret.raised
    /\ ret.str = Join(WholeSegments(Candidates, 0, ret.n * 4), "\n")

\* a call of save_session is made in this step
CloseStep == closes' = closes + 1

\* the step condition of C32
C32_SessionHistory_Step ==
  /\ Len(pastSessions) <= 30 => Len(pastSessions') <= 30
  /\ CloseStep =>
       /\ pastSessions' # <<>>
       /\ pastSessions'[Len(pastSessions')] =
            SessionRecord(closes', Summary(session), Len(session))
       /\ pastSessions' =
            LastN(Append(pastSessions, pastSessions'[Len(pastSessions')]), 30)

\* C32: the session history never holds more than 30 records; every call of
\* save_session appends one record, whose summary is built from the first
\* three user messages of the session, and the history is then the last 30
\* records appended, in the order they were appended.
C32_SessionHistory == [][C32_SessionHistory_Step]_vars

\* a loaded field passes the structural check of a document of its default:
\* the same top-level type, the keys of the default, items that are facts
Structured(field, default) ==
  /\ field.json = default.json
  /\ default.keys \subseteq field.keys
  /\ field.items # "numbers"

\* C33: every field of a constructed Memory passes the structural check of
\* its document (the default stands in for an absent, unparseable or
\* ill-structured file), and no method called on it afterwards raises.
C33_LoadSubstitutes ==
  mem # <<>> =>
    /\ Structured(mem.user, DefaultUser)
    /\ Structured(mem.errors, DefaultErrors)
    /\ Structured(mem.history, DefaultHistory)
    /\ Structured(mem.facts, DefaultFacts)
    /\ \A i \in 1..Len(did) : ~did[i].raised

\* C34: no two facts of the store have texts that are equal when case is
\* ignored, and every fact has an access count of at least 1.
C34_DistinctFacts ==
  /\ Cardinality({Lower(facts[i].fact) : i \in 1..Len(facts)}) = Len(facts)
  /\ \A i \in 1..Len(facts) : facts[i].access_count >= 1

\* C34 witness: "X" learned, learned again as "x", and a second text learned:
\* two facts, the first with access count 2
C34_Witness ==
  /\ memCalls = 3 /\ ret.op = "learn"
  /\ Len(facts) = 2
  /\ facts[1].fact = "X" /\ facts[1].access_count = 2
  /\ facts[2].fact = "xY" /\ facts[2].access_count = 1

\* C35: top_facts returns on every store learn and forget can leave, also
\* when two distinct facts of the store have the same score.
C35_TopFactsReturns == ret.op = "top_facts" => ~ret.raised

\* the step condition of C36
C36_LearnedIsStored_Step ==
  (LearnStep /\ SameText(facts, ret'.text) = {}) =>
    \E i \in 1..Len(facts') : facts'[i].fact = ret'.text

\* C36: after learn(t, p) of a text that matched no stored fact, the store
\* holds a fact with text t, also when it held 50 facts before.
C36_LearnedIsStored == [][C36_LearnedIsStored_Step]_vars

\* the history holds the user message of the running turn: the last message
\* a user typed, every earlier one lying before it
HoldsUserMessage(h) == \E i \in 1..Len(h) : h[i] = UserMsg

\* C37: at every backend call of a core Agent.send turn, the retry call too,
\* the messages passed ([system] + history) hold the user message of the turn.
C37_UserMessageSent ==
  (prog = "core" /\ pc \in {"call", "retry"}) => HoldsUserMessage(history)

\* C38: the history part of every backend call of Agent.send, the retry
\* call too, holds at most 4 messages, each of at most 403 characters.
C38_CallWithinCeiling ==
  \A k \in 1..Len(request) :
    /\ Len(request[k]) <= 4
    /\ \A i \in 1..Len(request[k]) : Len(request[k][i].content) <= 403

\* the place of the file that registered the name, 0 for a built-in name
RegisteredBy(name) ==
  IF name \in BuiltinNames THEN 0
  ELSE CHOOSE i \in 1..Len(custom) : DeclaredName(i) = name

\* C39: execute_any called with the name of a schema get_all_schemas
\* returned runs the entry point of the tool that registered the name, and
\* never returns the unknown-tool observation.
C39_Dispatchable ==
  \A d \in 1..Len(dispatched) :
    /\ dispatched[d].outcome = "executed"
    /\ dispatched[d].by = RegisteredBy(dispatched[d].name)

====
